---- MODULE Spec2Model ----
(***************************************************************************)
(* The three-step form-filler wizard of frontend/src/components:           *)
(* FormFillerApp.jsx (session state, dataset upload, batch submission,     *)
(* reset) and the preview components it mounts.  Every React event handler *)
(* or promise callback is one action; the requests a handler leaves in     *)
(* flight are kept in bags and answered later by the backend with any of   *)
(* the outcomes the handler distinguishes.                                 *)
(***************************************************************************)
EXTENDS Naturals, Integers, Sequences, FiniteSets, Bags, TLC

(***************************************************************************)
(* Bounds of the model.                                                    *)
(***************************************************************************)
MaxSubmits == 2       \* batch submissions per page load
MaxCsvInFlight == 1   \* preview-csv requests in flight at once
MaxPvInFlight == 2    \* artifact-preview requests in flight at once
MaxDownloads == 2     \* downloads started per page load
MaxClock == 1         \* milliseconds Date.now() advances while they run

(***************************************************************************)
(* Values.  JavaScript null / undefined are the record Null for objects    *)
(* and the string NoStr for strings.                                       *)
(***************************************************************************)
Null == [null |-> TRUE]
NoStr == "<null>"

\* Strings the program searches or orders are sequences of characters.
\* toLowerCase over the letters the model uses.
Fold == [A |-> "a", B |-> "b", M |-> "m", Z |-> "z", T |-> "t"]

toLowerCase(s) == [i \in 1..Len(s) |-> IF s[i] \in DOMAIN Fold THEN Fold[s[i]] ELSE s[i]]

includes(s, q) == \E i \in 0..(Len(s) - Len(q)) : SubSeq(s, i + 1, i + Len(q)) = q

\* The collation order of the lower-case letters the model uses.
Alphabet == <<"a", "b", "d", "e", "f", "h", "i", "l", "m", "p", "t", "z">>

Rank(c) == CHOOSE i \in 1..Len(Alphabet) : Alphabet[i] = c

RECURSIVE Lexicographic(_, _)
Lexicographic(a, b) ==
  IF a = <<>> /\ b = <<>> THEN 0
  ELSE IF a = <<>> THEN -1
  ELSE IF b = <<>> THEN 1
  ELSE IF Rank(Head(a)) < Rank(Head(b)) THEN -1
  ELSE IF Rank(Head(a)) > Rank(Head(b)) THEN 1
  ELSE Lexicographic(Tail(a), Tail(b))

\* Between strings that differ in case only, lower case comes first.
RECURSIVE CaseOrder(_, _)
CaseOrder(a, b) ==
  IF a = <<>> \/ b = <<>> THEN 0
  ELSE IF Head(a) = Head(b) THEN CaseOrder(Tail(a), Tail(b))
  ELSE IF Head(a) \in DOMAIN Fold THEN 1 ELSE -1

\* String.prototype.localeCompare: letters first, case to break a tie; 0 for
\* equal strings only.
localeCompare(a, b) ==
  LET primary == Lexicographic(toLowerCase(a), toLowerCase(b))
  IN  IF primary # 0 THEN primary ELSE CaseOrder(a, b)

TypeChars == [pdf   |-> <<"p", "d", "f">>,
              tif   |-> <<"t", "i", "f">>,
              email |-> <<"e", "m", "a", "i", "l">>]

\* The templates a backend catalog (GET /forms/templates) can hold;
\* lastModified is a day number.
Templates ==
  { [id |-> "a", name |-> <<"Z", "e", "t", "a">>, type |-> "pdf",
     description |-> <<"f", "i", "l", "l">>, lastModified |-> 3],
    [id |-> "b", name |-> <<"A", "l", "p", "h", "a">>, type |-> "email",
     description |-> <<"m", "a", "i", "l">>, lastModified |-> 1],
    [id |-> "c", name |-> <<"B", "e", "t", "a">>, type |-> "email",
     description |-> <<"m", "a", "i", "l">>, lastModified |-> 2],
    [id |-> "d", name |-> <<"Z", "e", "t", "a">>, type |-> "email",
     description |-> <<"f", "i", "l", "l">>, lastModified |-> 1] }

Template(id) == CHOOSE t \in Templates : t.id = id

\* File names are sequences of characters so that endsWith is computed.
CsvSuffix == <<".", "c", "s", "v">>

endsWith(s, suf) ==
  /\ Len(s) >= Len(suf)
  /\ SubSeq(s, Len(s) - Len(suf) + 1, Len(s)) = suf

SizeLimit == 5 * 1024 * 1024

\* The files a user can have: name, media type, size, and the number of data
\* rows the backend finds in them.
Files ==
  { [name |-> <<"d", ".", "c", "s", "v">>, type |-> "text/csv",   size |-> SizeLimit,     rows |-> 2],
    [name |-> <<"e", ".", "c", "s", "v">>, type |-> "",           size |-> 10,            rows |-> 1],
    [name |-> <<"d", ".", "t", "x", "t">>, type |-> "text/plain", size |-> 10,            rows |-> 1],
    [name |-> <<"b", ".", "c", "s", "v">>, type |-> "text/csv",   size |-> SizeLimit + 1, rows |-> 1] }

VARIABLES
  catalog,            \* what the backend serves on GET /forms/templates
  disk,               \* the files the user picks or drops
  tracked,            \* the preview instances whose internals are followed
  step,               \* 1 Select Template, 2 Upload Data, 3 Results
  loading,            \* the catalog is being fetched
  templates,          \* the catalog as loaded
  formTypes,          \* the options of the type filter
  selectedFormType,   \* the type filter
  searchQuery,
  currentPage,
  sortField,
  sortDirection,
  filterOpen,         \* the filter panel is shown
  formTypeDropdownOpen,
  viewMode,           \* "list" or "grid"
  dragActive,         \* a file is dragged over the upload zone
  selectedTemplate,
  csvFile,
  previewData,
  validationError,
  processing,
  completed,
  error,
  processingResults,
  showPreviewModal,
  showEmailPreview,
  selectedEmailTemplate,
  showFilledPreview,
  previewFilledForm,
  showProcessedEmailPreview,
  selectedProcessedEmail,
  catalogReq,         \* the catalog fetch is in flight
  csvReqs,            \* bag of POST /forms/preview-csv requests in flight
  processReqs,        \* set of POST /forms/process requests in flight
  submitCount,        \* processForm calls accepted since the page was loaded
  processReqCount,    \* POST /forms/process requests issued since then
  current,            \* id of the submission the session is waiting for, 0 if none
  pv,                 \* per preview instance: its loading, error, emailData
  pvReqs,             \* bag of preview fetches in flight
  now,                \* Date.now()
  body,               \* the elements downloads appended to document.body
  dl,                 \* the downloads started, each with its closure and phase
  urls,               \* object URLs created and not revoked, by their link
  removed,            \* bag of the nodes removeChild has taken out of the body
  alert,              \* the message of the open alert box
  opened,             \* what window.open was last called with
  uncaught,           \* a timer callback threw
  last                \* the handler that ran last, and what it handled

wizVars == <<step, loading, templates, selectedTemplate, csvFile, previewData,
             validationError, processing, completed, error, processingResults>>
modalVars == <<showPreviewModal, showEmailPreview, selectedEmailTemplate,
               showFilledPreview, previewFilledForm, showProcessedEmailPreview,
               selectedProcessedEmail>>
netVars == <<catalogReq, csvReqs, processReqs, submitCount, processReqCount, current>>
pvVars == <<pv, pvReqs>>
envVars == <<catalog, disk, tracked>>
catVars == <<formTypes, selectedFormType, searchQuery, currentPage, sortField,
             sortDirection, filterOpen, formTypeDropdownOpen, viewMode>>
dlVars == <<now, body, dl, urls, removed, alert, opened, uncaught>>
vars == <<envVars, wizVars, catVars, dragActive, modalVars, netVars, pvVars, dlVars, last>>

(***************************************************************************)
(* Backend answers.                                                        *)
(***************************************************************************)
BackendMsg == "rejected by backend"

\* GET /forms/types answers the types of the catalog.
FormTypes == <<"pdf", "tif", "email">>

\* A non-2xx answer (with or without an error field) or no usable answer.
FailureOutcomes ==
  { [kind |-> "http", msg |-> BackendMsg],
    [kind |-> "http", msg |-> NoStr],
    [kind |-> "net",  msg |-> "Failed to fetch"] }

\* POST /forms/preview-csv answers {headers, rows} for the file it was sent.
Preview(f) == [file |-> f.name, rows |-> f.rows]

\* POST /forms/process: the batch id of a 2xx answer is the backend's, one per
\* submission; the answer may lack it, or carry the empty string.
BatchIdOf(id) == <<"batch_1", "batch_2", "batch_3", "batch_4">>[id]
NoBatchId == "<undefined>"
EmptyBatchId == ""

GeneratedName(t, i) == [stem |-> <<"filled", t.id, i>>,
                        eml |-> t.type = "email"]

GeneratedFiles(r) == [i \in 1..r.file.rows |-> GeneratedName(r.template, i)]

\* A 2xx answer: the batch with its files, the batch without a files field,
\* or an answer without a usable batchId.
ProcessOutcomes(r) ==
  { [kind |-> "ok", result |-> [batchId |-> b, successCount |-> r.file.rows,
                                 hasFiles |-> TRUE, files |-> GeneratedFiles(r)]]
      : b \in {BatchIdOf(r.id), NoBatchId, EmptyBatchId} }
  \cup { [kind |-> "ok", result |-> [batchId |-> BatchIdOf(r.id), successCount |-> r.file.rows,
                                     hasFiles |-> FALSE, files |-> <<>>]] }
  \cup FailureOutcomes

\* JavaScript truthiness of a batchId.
Truthy(b) == b # NoBatchId /\ b # EmptyBatchId

MissingBatchId == "Server response missing batch ID"
CatalogFailed == "Failed to load form types and templates. Please try again."

(***************************************************************************)
(* What is on screen.  The top-level render shows the error panel instead  *)
(* of the step views whenever error is set; the preview modals are mounted *)
(* outside that choice and cover the page while they are shown.            *)
(***************************************************************************)
AnyModal == \/ showPreviewModal
            \/ showEmailPreview
            \/ showFilledPreview
            \/ showProcessedEmailPreview

StepView(n) == error = NoStr /\ step = n /\ ~AnyModal

\* The rows of the template list: the catalog page under the default filter.
Range(seq) == {seq[i] : i \in DOMAIN seq}

typeMatch(template, formType) == formType = "all" \/ template.type = formType

\* A filter that does not look at the id.
queryMatchWithoutId(template, text) ==
  LET query == toLowerCase(text)
  IN  \/ includes(toLowerCase(template.name), query)
      \/ includes(toLowerCase(template.description), query)

queryMatch(template, text) ==
  LET query == toLowerCase(text)
  IN  \/ includes(toLowerCase(template.name), query)
      \/ includes(toLowerCase(template.description), query)
      \/ includes(toLowerCase(<<template.id>>), query)

\* Array.prototype.filter with the predicate of filteredTemplates.
RECURSIVE filtered(_, _, _)
filtered(list, formType, text) ==
  IF list = <<>> THEN <<>>
  ELSE (IF typeMatch(Head(list), formType) /\ queryMatch(Head(list), text)
          THEN <<Head(list)>> ELSE <<>>)
       \o filtered(Tail(list), formType, text)

\* The comparator handed to sort.
comparison(a, b, field) ==
  CASE field = "name" -> localeCompare(a.name, b.name)
    [] field = "type" -> localeCompare(TypeChars[a.type], TypeChars[b.type])
    [] field = "lastModified" -> a.lastModified - b.lastModified
    [] OTHER -> 0

\* A comparator that ignores the direction.
compareAscending(a, b, field, direction) == comparison(a, b, field)

compare(a, b, field, direction) ==
  IF direction = "asc" THEN comparison(a, b, field) ELSE 0 - comparison(a, b, field)

\* Array.prototype.sort is stable: an element goes behind every element that
\* does not compare greater than it.
RECURSIVE insert(_, _, _, _)
insert(seq, x, field, direction) ==
  IF seq = <<>> THEN <<x>>
  ELSE IF compare(Head(seq), x, field, direction) <= 0
    THEN <<Head(seq)>> \o insert(Tail(seq), x, field, direction)
    ELSE <<x>> \o seq

RECURSIVE sorted(_, _, _)
sorted(list, field, direction) ==
  IF list = <<>> THEN <<>>
  ELSE insert(sorted(SubSeq(list, 1, Len(list) - 1), field, direction),
              list[Len(list)], field, direction)

templatesPerPage == 10

\* Array.prototype.slice(first, end), 0-based and clipped to the array.
slice(seq, first, end) ==
  SubSeq(seq, (IF first < 0 THEN 0 ELSE first) + 1,
              IF end > Len(seq) THEN Len(seq) ELSE end)

page(list, n) == slice(list, n * templatesPerPage - templatesPerPage, n * templatesPerPage)

\* A page count that rounds down.
pagesRoundedDown(list) == Len(list) \div templatesPerPage

pages(list) == (Len(list) + templatesPerPage - 1) \div templatesPerPage

filteredTemplates == filtered(templates, selectedFormType, searchQuery)

Reverse(seq) == [i \in 1..Len(seq) |-> seq[Len(seq) + 1 - i]]

\* A descending order obtained by reversing the ascending one.
sortedTemplatesByReversal ==
  IF sortDirection = "asc" THEN sorted(filteredTemplates, sortField, "asc")
  ELSE Reverse(sorted(filteredTemplates, sortField, "asc"))

sortedTemplates == sorted(filteredTemplates, sortField, sortDirection)

currentTemplates == page(sortedTemplates, currentPage)

totalPages == pages(sortedTemplates)

\* The rows (or cards) of step 1.
TemplateRows == IF loading THEN {} ELSE Range(currentTemplates)

(***************************************************************************)
(* The preview components.  renderPreviewModal mounts four instances: two  *)
(* of PdfPreviewComponent.jsx (template document, filled document) and two *)
(* of EmailPreviewComponent.jsx (template email, processed email).  The    *)
(* instances never feed back into the wizard except through onClose and    *)
(* onUseTemplate, so a specification follows the internals of the          *)
(* instances in `tracked` and leaves the others at their mounted state.    *)
(***************************************************************************)
Inst == {"templateDoc", "filledDoc", "templateEmail", "processedEmail"}

\* The repository holds a second component named PdfPreviewComponent, which
\* shows a pdf template in an iframe; "pdfViewer" is that component under the
\* props the template preview of renderPreviewModal is given.
Viewers == Inst \cup {"pdfViewer"}

\* The source file an instance is an instance of.
Variant(m) ==
  IF m = "pdfViewer" THEN "iframe"
  ELSE IF m \in {"templateDoc", "filledDoc"} THEN "pdf" ELSE "email"

\* The props renderPreviewModal passes.  PdfPreviewComponent.jsx has no
\* isFilledForm or filledFormInfo parameter, so those two are dropped there.
Props(m) ==
  CASE m \in {"templateDoc", "pdfViewer"} ->
         [showModal |-> showPreviewModal, template |-> selectedTemplate,
          isProcessed |-> FALSE, processedEmailInfo |-> Null]
    [] m = "filledDoc" ->
         [showModal |-> showFilledPreview, template |-> Null,
          isProcessed |-> FALSE, processedEmailInfo |-> Null]
    [] m = "templateEmail" ->
         [showModal |-> showEmailPreview, template |-> selectedEmailTemplate,
          isProcessed |-> FALSE, processedEmailInfo |-> Null]
    [] m = "processedEmail" ->
         [showModal |-> showProcessedEmailPreview, template |-> Null,
          isProcessed |-> TRUE, processedEmailInfo |-> selectedProcessedEmail]

\* What the url built from the props identifies; Null when no url is built.
Target(p) ==
  IF p.isProcessed /\ p.processedEmailInfo # Null
    THEN [kind |-> "processed", file |-> p.processedEmailInfo.name,
          batchId |-> p.processedEmailInfo.batchId]
    ELSE IF p.template # Null
      THEN [kind |-> "template", id |-> p.template.id]
      ELSE Null

\* pdfUrl: what the src of the iframe identifies; Null when no iframe is
\* rendered.
IframeTarget(p) ==
  IF p.template # Null /\ p.template.type = "pdf"
    THEN [kind |-> "template", id |-> p.template.id]
    ELSE Null

\* The load of <iframe src={pdfUrl}>: a plain GET of the url.
IframeRequest(m, target) ==
  [inst |-> m, target |-> target, retry |-> FALSE, endpoint |-> "/api/forms/preview",
   query |-> {"formType"}, cache |-> "default"]

FreshPreview == [loading |-> TRUE, error |-> NoStr, emailData |-> Null]

MissingInfo == "Missing required information for preview"
LoadFailed == "Failed to load email"

\* The state the useEffect body leaves, given the props it runs with.
EffectState(m, p, old) ==
  IF Variant(m) = "iframe" THEN old
  ELSE IF ~p.showModal
    THEN IF Variant(m) = "email" THEN old ELSE FreshPreview
    ELSE IF Target(p) = Null
      THEN [loading |-> FALSE, error |-> MissingInfo, emailData |-> Null]
      ELSE FreshPreview

\* The path of the url built for a target.
Endpoint(target) ==
  IF target.kind = "processed" THEN "/api/forms/preview-processed-email"
  ELSE "/api/forms/preview-email"

\* fetch(url, {method: 'GET', cache: 'no-cache'}) with &t=${Date.now()}.
Request(m, target, retry) ==
  [inst |-> m, target |-> target, retry |-> retry, endpoint |-> Endpoint(target),
   query |-> (IF target.kind = "template" THEN {"templateId", "t"}
              ELSE {"file", "batchId", "t"}),
   t |-> now, cache |-> "no-cache"]

\* The fetch the useEffect body issues.
EffectRequests(m, p) ==
  IF Variant(m) = "iframe"
    THEN IF p.showModal /\ IframeTarget(p) # Null
           THEN {IframeRequest(m, IframeTarget(p))}
           ELSE {}
    ELSE IF p.showModal /\ Target(p) # Null
           THEN {Request(m, Target(p), FALSE)}
           ELSE {}

\* React runs an instance's effect after every render in which one of its
\* dependencies [template, processedEmailInfo, showModal, isProcessed] changed;
\* the iframe is mounted, and its src loaded, with the render that shows it.
RunEffects ==
  LET changed == {m \in tracked : Props(m)' # Props(m)}
  IN /\ pv' = [m \in Viewers |-> IF m \in changed
                               THEN EffectState(m, Props(m)', pv[m])
                               ELSE pv[m]]
     /\ pvReqs' = pvReqs (+) SetToBag(UNION {EffectRequests(m, Props(m)') : m \in changed})

PvRoom == BagCardinality(pvReqs) < MaxPvInFlight

\* A handler of the download machinery ran.
Did(op, arg) == last' = [op |-> op, arg |-> arg] /\ UNCHANGED envVars

\* A handler of the components ran, which leaves the document alone.
Log(op, arg) == Did(op, arg) /\ UNCHANGED dlVars

\* The document after the page has loaded.
DocumentFresh ==
  /\ now = 0
  /\ body = {}
  /\ dl = <<>>
  /\ urls = {}
  /\ removed = EmptyBag
  /\ alert = NoStr
  /\ opened = Null
  /\ uncaught = FALSE

Commit(op, arg) == Log(op, arg) /\ RunEffects

\* The state once the component is mounted and its mount effect has run.
Mounted ==
  /\ step = 1
  /\ loading = TRUE
  /\ templates = <<>>
  /\ formTypes = <<>>
  /\ selectedFormType = NoStr
  /\ searchQuery = <<>>
  /\ currentPage = 1
  /\ sortField = "name"
  /\ sortDirection = "asc"
  /\ filterOpen = FALSE
  /\ formTypeDropdownOpen = FALSE
  /\ viewMode = "list"
  /\ dragActive = FALSE
  /\ selectedTemplate = Null
  /\ csvFile = Null
  /\ previewData = Null
  /\ validationError = NoStr
  /\ processing = FALSE
  /\ completed = FALSE
  /\ error = NoStr
  /\ processingResults = Null
  /\ showPreviewModal = FALSE
  /\ showEmailPreview = FALSE
  /\ selectedEmailTemplate = Null
  /\ showFilledPreview = FALSE
  /\ previewFilledForm = Null
  /\ showProcessedEmailPreview = FALSE
  /\ selectedProcessedEmail = Null
  /\ catalogReq = TRUE
  /\ csvReqs = EmptyBag
  /\ processReqs = {}
  /\ submitCount = 0
  /\ processReqCount = 0
  /\ current = 0
  /\ pv = [m \in Viewers |-> FreshPreview]
  /\ pvReqs = EmptyBag
  /\ DocumentFresh
  /\ last = [op |-> "mount", arg |-> Null]

(***************************************************************************)
(* Catalog fetch (the mount effect).                                       *)
(***************************************************************************)
FetchFormTypesOk ==
  /\ catalogReq
  /\ catalogReq' = FALSE
  /\ formTypes' = <<"all">> \o FormTypes
  /\ templates' = catalog
  /\ selectedFormType' = "all"
  /\ loading' = FALSE
  /\ UNCHANGED <<searchQuery, currentPage, sortField, sortDirection, filterOpen,
                 formTypeDropdownOpen, viewMode, dragActive>>
  /\ UNCHANGED <<step, selectedTemplate, csvFile, previewData, validationError,
                 processing, completed, error, processingResults>>
  /\ UNCHANGED <<modalVars, csvReqs, processReqs, submitCount, processReqCount, current>>
  /\ Commit("fetchFormTypes", Null)

FetchFormTypesFail ==
  /\ catalogReq
  /\ catalogReq' = FALSE
  /\ error' = CatalogFailed
  /\ loading' = FALSE
  /\ UNCHANGED <<step, templates, selectedTemplate, csvFile, previewData,
                 validationError, processing, completed, processingResults>>
  /\ UNCHANGED <<modalVars, csvReqs, processReqs, submitCount, processReqCount, current>>
  /\ UNCHANGED <<catVars, dragActive>>
  /\ Commit("fetchFormTypes", Null)

(***************************************************************************)
(* Step 1: template selection.                                             *)
(***************************************************************************)
\* Row or card click.
SelectRow(t) ==
  /\ StepView(1)
  /\ t \in TemplateRows
  /\ selectedTemplate' = t
  /\ UNCHANGED <<step, loading, templates, csvFile, previewData, validationError,
                 processing, completed, error, processingResults>>
  /\ UNCHANGED <<modalVars, netVars>>
  /\ UNCHANGED <<catVars, dragActive>>
  /\ Commit("selectRow", t.id)

\* The arrow button of a row.
RowArrow(t) ==
  /\ StepView(1)
  /\ t \in TemplateRows
  /\ selectedTemplate' = t
  /\ step' = 2
  /\ UNCHANGED <<loading, templates, csvFile, previewData, validationError,
                 processing, completed, error, processingResults>>
  /\ UNCHANGED <<modalVars, netVars>>
  /\ UNCHANGED <<catVars, dragActive>>
  /\ Commit("rowArrow", t.id)

\* A variant of ContinueEnabled that only waits for the catalog.
ContinueEnabledOnceLoaded == ~loading

\* The Continue button is disabled while no template is selected or the catalog
\* is loading.
ContinueEnabled == selectedTemplate # Null /\ ~loading

Continue ==
  /\ StepView(1)
  /\ ContinueEnabled
  /\ step' = 2
  /\ UNCHANGED <<loading, templates, selectedTemplate, csvFile, previewData,
                 validationError, processing, completed, error, processingResults>>
  /\ UNCHANGED <<modalVars, netVars>>
  /\ UNCHANGED <<catVars, dragActive>>
  /\ Commit("continue", Null)

\* The eye button of a row or card.
previewTemplate(t) ==
  /\ StepView(1)
  /\ t \in TemplateRows
  /\ PvRoom
  /\ IF t.type = "email"
       THEN /\ showEmailPreview' = TRUE
            /\ selectedEmailTemplate' = t
            /\ UNCHANGED <<showPreviewModal, selectedTemplate>>
       ELSE /\ showPreviewModal' = TRUE
            /\ selectedTemplate' = t
            /\ UNCHANGED <<showEmailPreview, selectedEmailTemplate>>
  /\ UNCHANGED <<step, loading, templates, csvFile, previewData, validationError,
                 processing, completed, error, processingResults>>
  /\ UNCHANGED <<showFilledPreview, previewFilledForm, showProcessedEmailPreview,
                 selectedProcessedEmail, netVars>>
  /\ UNCHANGED <<catVars, dragActive>>
  /\ Commit("previewTemplate", t.id)

(***************************************************************************)
(* Step 1: search, type filter, sort and pagination of the catalog.        *)
(***************************************************************************)
\* Typing in the search box.
Search(text) ==
  /\ StepView(1)
  /\ text # searchQuery
  /\ searchQuery' = text
  /\ currentPage' = 1
  /\ UNCHANGED <<formTypes, selectedFormType, sortField, sortDirection, filterOpen,
                 formTypeDropdownOpen, viewMode>>
  /\ UNCHANGED <<wizVars, dragActive, modalVars, netVars>>
  /\ Commit("search", Null)

\* The button of the form type dropdown.
ToggleFormTypeDropdown ==
  /\ StepView(1)
  /\ formTypeDropdownOpen' = ~formTypeDropdownOpen
  /\ UNCHANGED <<formTypes, selectedFormType, searchQuery, currentPage, sortField,
                 sortDirection, filterOpen, viewMode>>
  /\ UNCHANGED <<wizVars, dragActive, modalVars, netVars>>
  /\ Commit("toggleFormTypeDropdown", Null)

\* An option of the open form type dropdown.
ChooseFormType(type) ==
  /\ StepView(1)
  /\ formTypeDropdownOpen
  /\ type \in Range(formTypes)
  /\ selectedFormType' = type
  /\ formTypeDropdownOpen' = FALSE
  /\ currentPage' = 1
  /\ UNCHANGED <<formTypes, searchQuery, sortField, sortDirection, filterOpen, viewMode>>
  /\ UNCHANGED <<wizVars, dragActive, modalVars, netVars>>
  /\ Commit("chooseFormType", Null)

\* The Filter button, and the X of the filter panel.
ToggleFilter ==
  /\ StepView(1)
  /\ filterOpen' = ~filterOpen
  /\ UNCHANGED <<formTypes, selectedFormType, searchQuery, currentPage, sortField,
                 sortDirection, formTypeDropdownOpen, viewMode>>
  /\ UNCHANGED <<wizVars, dragActive, modalVars, netVars>>
  /\ Commit("toggleFilter", Null)

\* The Type select of the filter panel.
FilterPanelType(type) ==
  /\ StepView(1)
  /\ filterOpen
  /\ type \in Range(formTypes)
  /\ type # selectedFormType
  /\ selectedFormType' = type
  /\ UNCHANGED <<formTypes, searchQuery, currentPage, sortField, sortDirection,
                 filterOpen, formTypeDropdownOpen, viewMode>>
  /\ UNCHANGED <<wizVars, dragActive, modalVars, netVars>>
  /\ Commit("filterPanelType", Null)

\* The list and grid buttons.
SetViewMode(mode) ==
  /\ StepView(1)
  /\ viewMode' = mode
  /\ UNCHANGED <<formTypes, selectedFormType, searchQuery, currentPage, sortField,
                 sortDirection, filterOpen, formTypeDropdownOpen>>
  /\ UNCHANGED <<wizVars, dragActive, modalVars, netVars>>
  /\ Commit("setViewMode", Null)

\* The table, with its sortable headers, replaces the loader and the
\* no-templates note in list view.
ListShown == StepView(1) /\ ~loading /\ filteredTemplates # <<>> /\ viewMode = "list"

\* A header click that also goes back to the first page.
toggleSortResettingPage(field) ==
  /\ ListShown
  /\ IF sortField = field
       THEN /\ sortDirection' = (IF sortDirection = "asc" THEN "desc" ELSE "asc")
            /\ UNCHANGED sortField
       ELSE /\ sortField' = field
            /\ sortDirection' = "asc"
  /\ currentPage' = 1
  /\ UNCHANGED <<formTypes, selectedFormType, searchQuery, filterOpen,
                 formTypeDropdownOpen, viewMode>>
  /\ UNCHANGED <<wizVars, dragActive, modalVars, netVars>>
  /\ Commit("toggleSort", [field |-> field,
                           from |-> [field |-> sortField, direction |-> sortDirection]])

\* A header click that keeps the direction when it changes the field.
toggleSortKeepingDirection(field) ==
  /\ ListShown
  /\ IF sortField = field
       THEN /\ sortDirection' = (IF sortDirection = "asc" THEN "desc" ELSE "asc")
            /\ UNCHANGED sortField
       ELSE /\ sortField' = field
            /\ UNCHANGED sortDirection
  /\ UNCHANGED <<formTypes, selectedFormType, searchQuery, currentPage, filterOpen,
                 formTypeDropdownOpen, viewMode>>
  /\ UNCHANGED <<wizVars, dragActive, modalVars, netVars>>
  /\ Commit("toggleSort", [field |-> field,
                           from |-> [field |-> sortField, direction |-> sortDirection]])

toggleSort(field) ==
  /\ ListShown
  /\ IF sortField = field
       THEN /\ sortDirection' = (IF sortDirection = "asc" THEN "desc" ELSE "asc")
            /\ UNCHANGED sortField
       ELSE /\ sortField' = field
            /\ sortDirection' = "asc"
  /\ UNCHANGED <<formTypes, selectedFormType, searchQuery, currentPage, filterOpen,
                 formTypeDropdownOpen, viewMode>>
  /\ UNCHANGED <<wizVars, dragActive, modalVars, netVars>>
  /\ Commit("toggleSort", [field |-> field,
                           from |-> [field |-> sortField, direction |-> sortDirection]])

\* The pagination bar is rendered while the filtered list is not empty.
PaginationShown == StepView(1) /\ filteredTemplates # <<>>

Max(a, b) == IF a > b THEN a ELSE b
Min(a, b) == IF a < b THEN a ELSE b

PreviousPage ==
  /\ PaginationShown
  /\ currentPage # 1
  /\ currentPage' = Max(currentPage - 1, 1)
  /\ UNCHANGED <<formTypes, selectedFormType, searchQuery, sortField, sortDirection,
                 filterOpen, formTypeDropdownOpen, viewMode>>
  /\ UNCHANGED <<wizVars, dragActive, modalVars, netVars>>
  /\ Commit("previousPage", Null)

NextPage ==
  /\ PaginationShown
  /\ currentPage # totalPages
  /\ currentPage' = Min(currentPage + 1, totalPages)
  /\ UNCHANGED <<formTypes, selectedFormType, searchQuery, sortField, sortDirection,
                 filterOpen, formTypeDropdownOpen, viewMode>>
  /\ UNCHANGED <<wizVars, dragActive, modalVars, netVars>>
  /\ Commit("nextPage", Null)

\* The number on the i-th page button (i from 0), at most five of them.
pageNum(i) ==
  IF totalPages <= 5 THEN i + 1
  ELSE IF currentPage <= 3 THEN i + 1
  ELSE IF currentPage >= totalPages - 2 THEN totalPages - 4 + i
  ELSE currentPage - 2 + i

GoToPage(i) ==
  /\ PaginationShown
  /\ i \in 0..(Min(5, totalPages) - 1)
  /\ currentPage' = pageNum(i)
  /\ UNCHANGED <<formTypes, selectedFormType, searchQuery, sortField, sortDirection,
                 filterOpen, formTypeDropdownOpen, viewMode>>
  /\ UNCHANGED <<wizVars, dragActive, modalVars, netVars>>
  /\ Commit("goToPage", Null)

(***************************************************************************)
(* Step 2: dataset upload.  The picker and the drop zone are rendered only *)
(* while no file is stored.                                                *)
(***************************************************************************)
TypeRejected(f) == f.type # "text/csv" /\ ~endsWith(f.name, CsvSuffix)

\* A variant of SizeRejected that rejects a file of exactly the limit.
SizeRejectedAtLimit(f) == f.size >= SizeLimit

SizeRejected(f) == f.size > SizeLimit

\* What handleFileUpload does with a file before its first await: the message
\* it leaves and whether it stores the file and asks for its preview.
IngestResult(f) ==
  IF TypeRejected(f)
    THEN [validationError |-> "Please upload a valid CSV file", stored |-> FALSE]
    ELSE IF SizeRejected(f)
      THEN [validationError |-> "File size exceeds 5MB limit", stored |-> FALSE]
      ELSE [validationError |-> NoStr, stored |-> TRUE]

Ingest(f) ==
  /\ validationError' = IngestResult(f).validationError
  /\ IF IngestResult(f).stored
       THEN /\ csvFile' = f
            /\ csvReqs' = csvReqs (+) SetToBag({[file |-> f, via |-> "picker"]})
       ELSE UNCHANGED <<csvFile, csvReqs>>

handleFileUpload(f) ==
  /\ StepView(2)
  /\ csvFile = Null
  /\ IngestResult(f).stored => BagCardinality(csvReqs) < MaxCsvInFlight
  /\ Ingest(f)
  /\ UNCHANGED <<step, loading, templates, selectedTemplate, previewData,
                 processing, completed, error, processingResults>>
  /\ UNCHANGED <<modalVars, catalogReq, processReqs, submitCount, processReqCount, current>>
  /\ UNCHANGED <<catVars, dragActive>>
  /\ Commit("handleFileUpload", f)

\* dragenter / dragover / dragleave over the upload zone.
handleDrag(type) ==
  /\ StepView(2)
  /\ csvFile = Null
  /\ dragActive' = (type \in {"dragenter", "dragover"})
  /\ UNCHANGED <<wizVars, catVars, modalVars, netVars>>
  /\ Commit("handleDrag", Null)

\* A variant of DropTypeRejected that wants both the name and the media type.
DropTypeRejectedEither(f) == f.type # "text/csv" \/ ~endsWith(f.name, CsvSuffix)

\* handleDrop repeats the checks of handleFileUpload in its own body.
DropTypeRejected(f) == f.type # "text/csv" /\ ~endsWith(f.name, CsvSuffix)

DropSizeRejected(f) == f.size > 5 * 1024 * 1024

\* A variant of DropResult that stores an oversized file all the same.
DropResultStoringOversized(f) ==
  IF DropTypeRejected(f)
    THEN [validationError |-> "Please upload a valid CSV file", stored |-> FALSE]
    ELSE IF DropSizeRejected(f)
      THEN [validationError |-> "File size exceeds 5MB limit", stored |-> TRUE]
      ELSE [validationError |-> NoStr, stored |-> TRUE]

DropResult(f) ==
  IF DropTypeRejected(f)
    THEN [validationError |-> "Please upload a valid CSV file", stored |-> FALSE]
    ELSE IF DropSizeRejected(f)
      THEN [validationError |-> "File size exceeds 5MB limit", stored |-> FALSE]
      ELSE [validationError |-> NoStr, stored |-> TRUE]

DropIngest(f) ==
  /\ validationError' = DropResult(f).validationError
  /\ IF DropResult(f).stored
       THEN /\ csvFile' = f
            /\ csvReqs' = csvReqs (+) SetToBag({[file |-> f, via |-> "drop"]})
       ELSE UNCHANGED <<csvFile, csvReqs>>

handleDrop(f) ==
  /\ StepView(2)
  /\ csvFile = Null
  /\ DropResult(f).stored => BagCardinality(csvReqs) < MaxCsvInFlight
  /\ dragActive' = FALSE
  /\ DropIngest(f)
  /\ UNCHANGED <<step, loading, templates, selectedTemplate, previewData,
                 processing, completed, error, processingResults>>
  /\ UNCHANGED <<modalVars, catalogReq, processReqs, submitCount, processReqCount, current>>
  /\ UNCHANGED catVars
  /\ Commit("handleDrop", f)

\* The picker closed, or a drop, without a file: only the message is cleared.
UploadNoFile ==
  /\ StepView(2)
  /\ csvFile = Null
  /\ validationError' = NoStr
  /\ UNCHANGED <<step, loading, templates, selectedTemplate, csvFile, previewData,
                 processing, completed, error, processingResults>>
  /\ UNCHANGED <<modalVars, netVars>>
  /\ UNCHANGED <<catVars, dragActive>>
  /\ Commit("uploadNoFile", Null)

\* Either of the two X buttons of the uploaded-file card.
RemoveFile ==
  /\ StepView(2)
  /\ csvFile # Null
  /\ csvFile' = Null
  /\ previewData' = Null
  /\ UNCHANGED <<step, loading, templates, selectedTemplate, validationError,
                 processing, completed, error, processingResults>>
  /\ UNCHANGED <<modalVars, netVars>>
  /\ UNCHANGED <<catVars, dragActive>>
  /\ Commit("removeFile", Null)

Back ==
  /\ StepView(2)
  /\ step' = 1
  /\ UNCHANGED <<loading, templates, selectedTemplate, csvFile, previewData,
                 validationError, processing, completed, error, processingResults>>
  /\ UNCHANGED <<modalVars, netVars>>
  /\ UNCHANGED <<catVars, dragActive>>
  /\ Commit("back", Null)

\* What the rest of handleFileUpload makes of the answer: the preview on a 2xx
\* answer, else the backend's message or the fallback text.
PreviewThen(q, o) ==
  IF o.kind = "ok"
    THEN [previewData |-> Preview(q.file), validationError |-> validationError]
    ELSE [previewData |-> previewData,
          validationError |-> IF o.msg # NoStr THEN o.msg ELSE "Failed to preview CSV"]

\* The same of handleDrop.
DropPreviewThen(q, o) ==
  IF o.kind = "ok"
    THEN [previewData |-> Preview(q.file), validationError |-> validationError]
    ELSE [previewData |-> previewData,
          validationError |-> IF o.msg # NoStr THEN o.msg ELSE "Failed to preview CSV"]

CsvOutcomes == FailureOutcomes \cup {[kind |-> "ok"]}

\* The answer to a preview-csv request, handled by the upload handler that
\* awaits it.
CsvPreviewResponse(q, o) ==
  /\ BagIn(q, csvReqs)
  /\ csvReqs' = csvReqs (-) SetToBag({q})
  /\ LET then == IF q.via = "picker" THEN PreviewThen(q, o) ELSE DropPreviewThen(q, o)
     IN  /\ previewData' = then.previewData
         /\ validationError' = then.validationError
  /\ UNCHANGED <<step, loading, templates, selectedTemplate, csvFile,
                 processing, completed, error, processingResults>>
  /\ UNCHANGED <<modalVars, catalogReq, processReqs, submitCount, processReqCount, current>>
  /\ UNCHANGED <<catVars, dragActive>>
  /\ Commit("csvPreviewResponse", [ok |-> o.kind = "ok"])

(***************************************************************************)
(* Batch submission.                                                       *)
(***************************************************************************)
\* The Process Forms button is disabled exactly when no file is stored.
ProcessFormsEnabled == csvFile # Null

\* processForm up to its first await: one POST /forms/process leaves.
processForm ==
  /\ StepView(2)
  /\ ProcessFormsEnabled
  /\ submitCount < MaxSubmits
  /\ step' = 3
  /\ processing' = TRUE
  /\ error' = NoStr
  /\ submitCount' = submitCount + 1
  /\ processReqCount' = processReqCount + 1
  /\ current' = processReqCount + 1
  /\ processReqs' = processReqs \cup
       { [id |-> processReqCount + 1, file |-> csvFile, template |-> selectedTemplate] }
  /\ UNCHANGED <<loading, templates, selectedTemplate, csvFile, previewData,
                 validationError, completed, processingResults>>
  /\ UNCHANGED <<modalVars, catalogReq, csvReqs>>
  /\ UNCHANGED <<catVars, dragActive>>
  /\ Commit("processForm", processReqCount + 1)

\* A variant of ProcessResponse that submits the batch again by itself when
\* the answer is a failure.
ProcessResponseRetrying(r, o) ==
  /\ r \in processReqs
  /\ IF o.kind = "ok" /\ Truthy(o.result.batchId)
       THEN /\ processingResults' = o.result
            /\ completed' = TRUE
            /\ processing' = FALSE
            /\ processReqs' = processReqs \ {r}
            /\ UNCHANGED <<error, processReqCount>>
       ELSE /\ error' = IF o.kind = "ok" THEN MissingBatchId
                        ELSE IF o.msg # NoStr THEN o.msg
                        ELSE "Failed to process forms"
            /\ processing' = TRUE
            /\ processReqs' = (processReqs \ {r}) \cup {[r EXCEPT !.id = processReqCount + 1]}
            /\ processReqCount' = processReqCount + 1
            /\ UNCHANGED <<processingResults, completed>>
  /\ UNCHANGED <<step, loading, templates, selectedTemplate, csvFile, previewData,
                 validationError>>
  /\ UNCHANGED <<modalVars, catalogReq, csvReqs, submitCount, current>>
  /\ UNCHANGED <<catVars, dragActive>>
  /\ Commit("processResponse",
            [id |-> r.id, missing |-> o.kind = "ok" /\ ~Truthy(o.result.batchId)])

\* A variant of BatchIdPresent that only looks for an undefined batchId.
BatchIdDefined(result) == result.batchId # NoBatchId

\* The check `!result.batchId` of a 2xx answer, negated.
BatchIdPresent(result) == Truthy(result.batchId)

\* A variant of ProcessResponse whose finally block is inside the try: a
\* failure leaves the processing flag set.
ProcessResponseNoFinally(r, o) ==
  /\ r \in processReqs
  /\ IF o.kind = "ok" /\ BatchIdPresent(o.result)
       THEN /\ processingResults' = o.result
            /\ completed' = TRUE
            /\ processing' = FALSE
            /\ UNCHANGED error
       ELSE /\ error' = IF o.kind = "ok" THEN MissingBatchId
                        ELSE IF o.msg # NoStr THEN o.msg
                        ELSE "Failed to process forms"
            /\ UNCHANGED <<processingResults, completed, processing>>
  /\ processReqs' = processReqs \ {r}
  /\ UNCHANGED <<step, loading, templates, selectedTemplate, csvFile, previewData,
                 validationError>>
  /\ UNCHANGED <<modalVars, catalogReq, csvReqs, submitCount, processReqCount, current>>
  /\ UNCHANGED <<catVars, dragActive>>
  /\ Commit("processResponse",
            [id |-> r.id, missing |-> o.kind = "ok" /\ ~Truthy(o.result.batchId)])

\* processForm from the answer on: the try block's remainder, catch, finally.
ProcessResponse(r, o) ==
  /\ r \in processReqs
  /\ IF o.kind = "ok" /\ BatchIdPresent(o.result)
       THEN /\ processingResults' = o.result
            /\ completed' = TRUE
            /\ UNCHANGED error
       ELSE /\ error' = IF o.kind = "ok" THEN MissingBatchId
                        ELSE IF o.msg # NoStr THEN o.msg
                        ELSE "Failed to process forms"
            /\ UNCHANGED <<processingResults, completed>>
  /\ processing' = FALSE
  /\ processReqs' = processReqs \ {r}
  /\ UNCHANGED <<step, loading, templates, selectedTemplate, csvFile, previewData,
                 validationError>>
  /\ UNCHANGED <<modalVars, catalogReq, csvReqs, submitCount, processReqCount, current>>
  /\ UNCHANGED <<catVars, dragActive>>
  /\ Commit("processResponse",
            [id |-> r.id, missing |-> o.kind = "ok" /\ ~Truthy(o.result.batchId)])

(***************************************************************************)
(* Step 3: results.                                                        *)
(***************************************************************************)
\* A variant of resetForm without its setValidationError(null).
resetFormKeepingValidationError ==
  /\ StepView(3)
  /\ step' = 1
  /\ selectedTemplate' = Null
  /\ csvFile' = Null
  /\ completed' = FALSE
  /\ previewData' = Null
  /\ processingResults' = Null
  /\ current' = 0
  /\ UNCHANGED <<loading, templates, processing, error, validationError>>
  /\ UNCHANGED <<modalVars, catalogReq, csvReqs, processReqs, submitCount, processReqCount>>
  /\ UNCHANGED <<catVars, dragActive>>
  /\ Commit("resetForm", Null)

\* Start New Batch, shown under the results card whatever the card shows.
resetForm ==
  /\ StepView(3)
  /\ step' = 1
  /\ selectedTemplate' = Null
  /\ csvFile' = Null
  /\ completed' = FALSE
  /\ previewData' = Null
  /\ validationError' = NoStr
  /\ processingResults' = Null
  /\ current' = 0
  /\ UNCHANGED <<loading, templates, processing, error>>
  /\ UNCHANGED <<modalVars, catalogReq, csvReqs, processReqs, submitCount, processReqCount>>
  /\ UNCHANGED <<catVars, dragActive>>
  /\ Commit("resetForm", Null)

\* The Retry button of the error panel reloads the page: the program starts
\* again and the requests of the old page are gone with it.
Reload ==
  /\ error # NoStr
  /\ step' = 1
  /\ loading' = TRUE
  /\ templates' = <<>>
  /\ formTypes' = <<>>
  /\ selectedFormType' = NoStr
  /\ searchQuery' = <<>>
  /\ currentPage' = 1
  /\ sortField' = "name"
  /\ sortDirection' = "asc"
  /\ filterOpen' = FALSE
  /\ formTypeDropdownOpen' = FALSE
  /\ viewMode' = "list"
  /\ dragActive' = FALSE
  /\ selectedTemplate' = Null
  /\ csvFile' = Null
  /\ previewData' = Null
  /\ validationError' = NoStr
  /\ processing' = FALSE
  /\ completed' = FALSE
  /\ error' = NoStr
  /\ processingResults' = Null
  /\ showPreviewModal' = FALSE
  /\ showEmailPreview' = FALSE
  /\ selectedEmailTemplate' = Null
  /\ showFilledPreview' = FALSE
  /\ previewFilledForm' = Null
  /\ showProcessedEmailPreview' = FALSE
  /\ selectedProcessedEmail' = Null
  /\ catalogReq' = TRUE
  /\ csvReqs' = EmptyBag
  /\ processReqs' = {}
  /\ submitCount' = 0
  /\ processReqCount' = 0
  /\ current' = 0
  /\ pv' = [m \in Viewers |-> FreshPreview]
  /\ pvReqs' = EmptyBag
  /\ Log("mount", Null)

\* The entries the results view makes up when the stored result has no files:
\* one per row of the dataset preview (Array(undefined) has one element),
\* named after the selected template.
SynthesizedFiles ==
  LET n == IF previewData = Null THEN 1 ELSE previewData.rows
      name == IF selectedTemplate = Null THEN <<"undefined">> ELSE selectedTemplate.name
  IN  [i \in 1..n |-> [stem |-> <<"filled", name, i>>, eml |-> FALSE]]

\* A variant of FilesShown that makes the entries up whatever the result holds.
FilesShownSynthesized == SynthesizedFiles

\* The list under Generated Files.
FilesShown ==
  IF processingResults.hasFiles THEN processingResults.files ELSE SynthesizedFiles

ResultsShown == StepView(3) /\ ~processing /\ completed /\ processingResults # Null

\* The eye button of a generated file.
PreviewGenerated(i) ==
  /\ ResultsShown
  /\ i \in DOMAIN FilesShown
  /\ PvRoom
  /\ LET file == FilesShown[i]
         info == [name |-> file, batchId |-> processingResults.batchId]
     IN IF file.eml \/ (selectedTemplate # Null /\ selectedTemplate.type = "email")
          THEN /\ selectedProcessedEmail' = info
               /\ showProcessedEmailPreview' = TRUE
               /\ UNCHANGED <<previewFilledForm, showFilledPreview>>
          ELSE /\ previewFilledForm' = info
               /\ showFilledPreview' = TRUE
               /\ UNCHANGED <<selectedProcessedEmail, showProcessedEmailPreview>>
  /\ UNCHANGED <<showPreviewModal, showEmailPreview, selectedEmailTemplate>>
  /\ UNCHANGED <<wizVars, netVars>>
  /\ UNCHANGED <<catVars, dragActive>>
  /\ Commit("previewGenerated", i)

(***************************************************************************)
(* The four preview modals mounted by renderPreviewModal.                  *)
(***************************************************************************)
CloseTemplatePreview ==
  /\ showPreviewModal
  /\ showPreviewModal' = FALSE
  /\ UNCHANGED <<showEmailPreview, selectedEmailTemplate, showFilledPreview,
                 previewFilledForm, showProcessedEmailPreview, selectedProcessedEmail>>
  /\ UNCHANGED <<wizVars, netVars>>
  /\ UNCHANGED <<catVars, dragActive>>
  /\ Commit("closeTemplatePreview", Null)

\* Use This Template, rendered only for a template that is not null.
UseTemplateFromPreview ==
  /\ showPreviewModal
  /\ selectedTemplate # Null
  /\ showPreviewModal' = FALSE
  /\ selectedTemplate' = selectedTemplate
  /\ step' = 2
  /\ UNCHANGED <<loading, templates, csvFile, previewData, validationError,
                 processing, completed, error, processingResults>>
  /\ UNCHANGED <<showEmailPreview, selectedEmailTemplate, showFilledPreview,
                 previewFilledForm, showProcessedEmailPreview, selectedProcessedEmail>>
  /\ UNCHANGED netVars
  /\ UNCHANGED <<catVars, dragActive>>
  /\ Commit("useTemplate", Null)

CloseEmailPreview ==
  /\ showEmailPreview
  /\ showEmailPreview' = FALSE
  /\ UNCHANGED <<showPreviewModal, selectedEmailTemplate, showFilledPreview,
                 previewFilledForm, showProcessedEmailPreview, selectedProcessedEmail>>
  /\ UNCHANGED <<wizVars, netVars>>
  /\ UNCHANGED <<catVars, dragActive>>
  /\ Commit("closeEmailPreview", Null)

UseTemplateFromEmailPreview ==
  /\ showEmailPreview
  /\ selectedEmailTemplate # Null
  /\ showEmailPreview' = FALSE
  /\ selectedTemplate' = selectedEmailTemplate
  /\ step' = 2
  /\ UNCHANGED <<loading, templates, csvFile, previewData, validationError,
                 processing, completed, error, processingResults>>
  /\ UNCHANGED <<showPreviewModal, selectedEmailTemplate, showFilledPreview,
                 previewFilledForm, showProcessedEmailPreview, selectedProcessedEmail>>
  /\ UNCHANGED netVars
  /\ UNCHANGED <<catVars, dragActive>>
  /\ Commit("useTemplate", Null)

CloseFilledPreview ==
  /\ showFilledPreview
  /\ showFilledPreview' = FALSE
  /\ UNCHANGED <<showPreviewModal, showEmailPreview, selectedEmailTemplate,
                 previewFilledForm, showProcessedEmailPreview, selectedProcessedEmail>>
  /\ UNCHANGED <<wizVars, netVars>>
  /\ UNCHANGED <<catVars, dragActive>>
  /\ Commit("closeFilledPreview", Null)

CloseProcessedEmailPreview ==
  /\ showProcessedEmailPreview
  /\ showProcessedEmailPreview' = FALSE
  /\ UNCHANGED <<showPreviewModal, showEmailPreview, selectedEmailTemplate,
                 showFilledPreview, previewFilledForm, selectedProcessedEmail>>
  /\ UNCHANGED <<wizVars, netVars>>
  /\ UNCHANGED <<catVars, dragActive>>
  /\ Commit("closeProcessedEmailPreview", Null)


(***************************************************************************)
(* Downloads.  downloadForm and downloadAllForms work on the document      *)
(* directly: a status notification appended to document.body, a fetch, a   *)
(* link with an object URL, and timers that take them away again.          *)
(***************************************************************************)
\* The element the n-th download creates for its notification or its link.
Node(n, tag) == [owner |-> n, tag |-> tag]

StatusId(kind) == [prefix |-> IF kind = "all" THEN "download-all-status-" ELSE "download-status-",
                   t |-> now]

\* A lookup of the notification by its id, which finds the first element of
\* the document that carries it.
StatusNodeById(d) ==
  LET found == {e \in body : e.node.tag = "status" /\ e.id = d.statusId}
  IN  IF found = {} THEN Null
      ELSE (CHOOSE e \in found : \A other \in found : e.node.owner <= other.node.owner).node

\* The notification a download works on: the statusDiv its callbacks close over.
StatusNode(d) == d.statusDiv

InBody(node) == \E e \in body : e.node = node

\* document.body.removeChild(node), for a node that is a child of the body.
removeChild(node) == {e \in body : e.node # node}

\* statusDiv.className = ..., statusDiv.innerHTML = ...
Restyled(elements, node, cls) ==
  {IF e.node = node THEN [e EXCEPT !.cls = cls] ELSE e : e \in elements}

DownloadRoom == Len(dl) < MaxDownloads

\* The synchronous part of downloadForm and of downloadAllForms behind its
\* guard: the notification, then the fetch.
StartDownload(kind, file, batchId) ==
  LET n == Len(dl) + 1
  IN /\ body' = body \cup {[node |-> Node(n, "status"), id |-> StatusId(kind), cls |-> "blue"]}
     /\ dl' = Append(dl, [kind |-> kind, file |-> file, batchId |-> batchId, t |-> now,
                          statusId |-> StatusId(kind), statusDiv |-> Node(n, "status"),
                          link |-> Null, phase |-> "fetching"])
     /\ UNCHANGED <<now, urls, removed, alert, opened, uncaught>>

downloadForm(fileName, batchId) == StartDownload("one", fileName, batchId)

\* The download button of a generated file.
RowDownload(i) ==
  /\ ResultsShown
  /\ alert = NoStr
  /\ i \in DOMAIN FilesShown
  /\ IF Truthy(processingResults.batchId)
       THEN /\ DownloadRoom
            /\ downloadForm(FilesShown[i], processingResults.batchId)
       ELSE /\ alert' = "Error: Cannot download file. Missing batch information."
            /\ UNCHANGED <<now, body, dl, urls, removed, opened, uncaught>>
  /\ UNCHANGED <<wizVars, catVars, dragActive, modalVars, netVars, pvVars>>
  /\ Did("rowDownload", Null)

\* A variant of downloadAllForms without the guard.
downloadAllFormsUnguarded ==
  /\ ResultsShown
  /\ alert = NoStr
  /\ DownloadRoom
  /\ StartDownload("all", Null, processingResults.batchId)
  /\ UNCHANGED <<wizVars, catVars, dragActive, modalVars, netVars, pvVars>>
  /\ Did("downloadAllForms", Null)

\* Download All Files.
downloadAllForms ==
  /\ ResultsShown
  /\ alert = NoStr
  /\ IF processingResults = Null \/ ~Truthy(processingResults.batchId)
       THEN /\ alert' = "Error: Missing batch ID. Please try again or reload the page."
            /\ UNCHANGED <<now, body, dl, urls, removed, opened, uncaught>>
       ELSE /\ DownloadRoom
            /\ StartDownload("all", Null, processingResults.batchId)
  /\ UNCHANGED <<wizVars, catVars, dragActive, modalVars, netVars, pvVars>>
  /\ Did("downloadAllForms", Null)

\* Download Email, under the preview of a generated email.
DownloadEmail ==
  /\ showProcessedEmailPreview
  /\ alert = NoStr
  /\ selectedProcessedEmail # Null
  /\ IF Truthy(selectedProcessedEmail.batchId)
       THEN opened' = [endpoint |-> "/api/forms/download",
                       file |-> selectedProcessedEmail.name,
                       batchId |-> selectedProcessedEmail.batchId,
                       t |-> now]
       ELSE UNCHANGED opened
  /\ UNCHANGED <<now, body, dl, urls, removed, alert, uncaught>>
  /\ UNCHANGED <<wizVars, catVars, dragActive, modalVars, netVars, pvVars>>
  /\ Did("downloadEmail", Null)

\* The user closes the alert box.
DismissAlert ==
  /\ alert # NoStr
  /\ alert' = NoStr
  /\ UNCHANGED <<now, body, dl, urls, removed, opened, uncaught>>
  /\ UNCHANGED <<wizVars, catVars, dragActive, modalVars, netVars, pvVars>>
  /\ Did("dismissAlert", Null)

\* Time passes.
Tick ==
  /\ now < MaxClock
  /\ now' = now + 1
  /\ UNCHANGED <<body, dl, urls, removed, alert, opened, uncaught>>
  /\ UNCHANGED <<wizVars, catVars, dragActive, modalVars, netVars, pvVars>>
  /\ Did("tick", Null)

\* What comes back for a download: the blob, or a failure.
DownloadOutcomes == FailureOutcomes \cup {[kind |-> "ok"]}

\* The promise chain of the fetch: on a blob the link with its object URL is
\* made and clicked and the one-second timer set; on anything else the
\* notification turns into the error and the five-second timer is set.
DownloadResponse(n, o) ==
  /\ n \in DOMAIN dl
  /\ dl[n].phase = "fetching"
  /\ IF o.kind = "ok"
       THEN /\ body' = body \cup {[node |-> Node(n, "link"), id |-> Null, cls |-> NoStr]}
            /\ urls' = urls \cup {Node(n, "link")}
            /\ dl' = [dl EXCEPT ![n].link = Node(n, "link"), ![n].phase = "saving"]
       ELSE /\ body' = Restyled(body, StatusNode(dl[n]), "red")
            /\ dl' = [dl EXCEPT ![n].phase = "failed"]
            /\ UNCHANGED urls
  /\ UNCHANGED <<now, removed, alert, opened, uncaught>>
  /\ UNCHANGED <<wizVars, catVars, dragActive, modalVars, netVars, pvVars>>
  /\ Did("downloadResponse", Null)

\* A one-second timer that forgets the object URL.
SaveTimerKeepingUrl(n) ==
  /\ n \in DOMAIN dl
  /\ dl[n].phase = "saving"
  /\ body' = Restyled(removeChild(dl[n].link), StatusNode(dl[n]), "green")
  /\ removed' = removed (+) SetToBag({dl[n].link})
  /\ dl' = [dl EXCEPT ![n].phase = "shown"]
  /\ UNCHANGED <<now, urls, alert, opened, uncaught>>
  /\ UNCHANGED <<wizVars, catVars, dragActive, modalVars, netVars, pvVars>>
  /\ Did("saveTimer", Null)

\* The one-second timer: the object URL is revoked, the link removed, the
\* notification turned into the success and the three-second timer set.
\* removeChild throws for a node that is not a child of the body, which ends
\* the callback there.
SaveTimer(n) ==
  /\ n \in DOMAIN dl
  /\ dl[n].phase = "saving"
  /\ urls' = urls \ {dl[n].link}
  /\ IF InBody(dl[n].link)
       THEN /\ body' = Restyled(removeChild(dl[n].link), StatusNode(dl[n]), "green")
            /\ removed' = removed (+) SetToBag({dl[n].link})
            /\ dl' = [dl EXCEPT ![n].phase = "shown"]
            /\ UNCHANGED uncaught
       ELSE /\ uncaught' = TRUE
            /\ dl' = [dl EXCEPT ![n].phase = "stuck"]
            /\ UNCHANGED <<body, removed>>
  /\ UNCHANGED <<now, alert, opened>>
  /\ UNCHANGED <<wizVars, catVars, dragActive, modalVars, netVars, pvVars>>
  /\ Did("saveTimer", Null)

\* The three-second timer after a success and the five-second timer after a
\* failure: the notification is removed.
StatusTimer(n) ==
  /\ n \in DOMAIN dl
  /\ dl[n].phase \in {"shown", "failed"}
  /\ IF InBody(StatusNode(dl[n]))
       THEN /\ body' = removeChild(StatusNode(dl[n]))
            /\ removed' = removed (+) SetToBag({StatusNode(dl[n])})
            /\ UNCHANGED uncaught
       ELSE /\ uncaught' = TRUE
            /\ UNCHANGED <<body, removed>>
  /\ dl' = [dl EXCEPT ![n].phase = "gone"]
  /\ UNCHANGED <<now, urls, alert, opened>>
  /\ UNCHANGED <<wizVars, catVars, dragActive, modalVars, netVars, pvVars>>
  /\ Did("statusTimer", Null)

(***************************************************************************)
(* Inside a preview component.                                             *)
(***************************************************************************)
\* What the backend answers to a preview fetch: the content of the target
\* asked for, a non-2xx answer with or without a JSON body, or nothing.
PreviewOutcomes(q) ==
  { [kind |-> "ok", data |-> [of |-> q.target]],
    [kind |-> "http", json |-> TRUE,  data |-> [errorBody |-> TRUE]],
    [kind |-> "http", json |-> FALSE, data |-> Null],
    [kind |-> "net",  json |-> FALSE, data |-> Null] }

\* The promise chain of the useEffect fetch: a response that is not ok throws.
EffectThen(old, o) ==
  IF o.kind = "ok"
    THEN [old EXCEPT !.emailData = o.data, !.loading = FALSE]
    ELSE [old EXCEPT !.error = LoadFailed, !.loading = FALSE]

\* The promise chain of the Try Again fetch: response.json() of any response.
RetryThen(old, o) ==
  IF o.kind = "ok" \/ (o.kind = "http" /\ o.json)
    THEN [old EXCEPT !.emailData = o.data, !.loading = FALSE]
    ELSE [old EXCEPT !.error = LoadFailed, !.loading = FALSE]

\* handleIframeLoad and handleIframeError; a document the backend answers
\* with, whatever its status, is a load.
IframeThen(old, o) ==
  IF o.kind = "net"
    THEN [old EXCEPT !.error = "Failed to load PDF. Please try again.", !.loading = FALSE]
    ELSE [old EXCEPT !.loading = FALSE]

PreviewResponse(q, o) ==
  /\ BagIn(q, pvReqs)
  /\ pvReqs' = pvReqs (-) SetToBag({q})
  /\ pv' = [pv EXCEPT ![q.inst] =
             IF Variant(q.inst) = "iframe"
               THEN IF Props(q.inst).showModal THEN IframeThen(@, o) ELSE @
               ELSE IF q.retry THEN RetryThen(@, o) ELSE EffectThen(@, o)]
  /\ UNCHANGED <<wizVars, modalVars, netVars>>
  /\ UNCHANGED <<catVars, dragActive>>
  /\ Log("previewResponse", [inst |-> q.inst, target |-> q.target,
                             failed |-> pv'[q.inst].error # NoStr])

\* refreshUrl: what Try Again asks for, built from the props of the render
\* the button belongs to.
RetryTarget(m) == Target(Props(m))

\* Try Again, rendered with the error.
RetryPreview(m) ==
  /\ m \in tracked
  /\ Variant(m) # "iframe"
  /\ Props(m).showModal
  /\ pv[m].error # NoStr
  /\ PvRoom
  /\ pv' = [pv EXCEPT ![m] = [@ EXCEPT !.loading = TRUE, !.error = NoStr]]
  /\ pvReqs' = pvReqs (+) SetToBag(
       IF RetryTarget(m) # Null
         THEN {Request(m, RetryTarget(m), TRUE)}
         ELSE {})
  /\ UNCHANGED <<wizVars, modalVars, netVars>>
  /\ UNCHANGED <<catVars, dragActive>>
  /\ Log("retryPreview", m)

\* Show Basic Info, which only EmailPreviewComponent.jsx renders.
ShowBasicInfo(m) ==
  /\ m \in tracked
  /\ Variant(m) = "email"
  /\ Props(m).showModal
  /\ pv[m].error # NoStr
  /\ pv' = [pv EXCEPT ![m] = [@ EXCEPT !.error = NoStr]]
  /\ UNCHANGED <<wizVars, modalVars, netVars, pvReqs>>
  /\ UNCHANGED <<catVars, dragActive>>
  /\ Log("showBasicInfo", m)

\* The name renderFallbackContent prints.
FallbackIdentity(m) ==
  LET p == Props(m)
  IN  IF p.isProcessed
        THEN IF p.processedEmailInfo = Null THEN Null ELSE p.processedEmailInfo.name
        ELSE IF p.template = Null THEN Null ELSE p.template.name

\* A body that renders fetched content or nothing.
RenderedContentOnly(m) ==
  IF ~Props(m).showModal THEN {}
  ELSE (IF pv[m].loading THEN {"loader"} ELSE {})
       \cup (IF pv[m].error # NoStr THEN {"error"} ELSE {})
       \cup (IF ~pv[m].loading /\ pv[m].error = NoStr /\ pv[m].emailData # Null
               THEN {"content"} ELSE {})

\* What the body of a shown modal renders: the loader, the error box, the
\* fetched content, or (EmailPreviewComponent.jsx only) the fallback.
Rendered(m) ==
  IF ~Props(m).showModal THEN {}
  ELSE (IF pv[m].loading THEN {"loader"} ELSE {})
       \cup (IF pv[m].error # NoStr THEN {"error"} ELSE {})
       \cup (IF ~pv[m].loading /\ pv[m].error = NoStr
               THEN IF pv[m].emailData # Null THEN {"content"}
                    ELSE IF Variant(m) = "email" THEN {"fallback"} ELSE {}
               ELSE {})

(***************************************************************************)
(* The program.                                                            *)
(***************************************************************************)
\* A page load: a backend with one document and one email template, a user
\* with one well-formed dataset and two files that validation rejects.
Init ==
  /\ catalog = <<Template("a"), Template("b")>>
  /\ disk = {f \in Files : f.rows = 2 \/ TypeRejected(f) \/ SizeRejected(f)}
  /\ tracked = {}
  /\ Mounted

\* The wizard.  The previews of generated files assign modal state only
\* (previewFilledForm, selectedProcessedEmail and their flags) and, while one
\* is open, cover the step view until it is closed again; NextPreview follows
\* them from a finished batch.  A dataset enters through the picker; the
\* drop zone, which NextIngest follows, leaves the same state behind.
Next ==
  \/ FetchFormTypesOk
  \/ FetchFormTypesFail
  \/ \E t \in Range(catalog) : SelectRow(t)
  \/ \E t \in Range(catalog) : RowArrow(t)
  \/ Continue
  \/ \E t \in Range(catalog) : previewTemplate(t)
  \/ \E f \in disk : handleFileUpload(f)
  \/ UploadNoFile
  \/ RemoveFile
  \/ Back
  \/ \E q \in BagToSet(csvReqs), o \in CsvOutcomes : CsvPreviewResponse(q, o)
  \/ processForm
  \/ \E r \in processReqs : \E o \in ProcessOutcomes(r) : ProcessResponse(r, o)
  \/ resetForm
  \/ Reload
  \/ CloseTemplatePreview
  \/ UseTemplateFromPreview
  \/ CloseEmailPreview
  \/ UseTemplateFromEmailPreview

Spec == Init /\ [][Next]_vars

(***************************************************************************)
(* The preview components followed from the two places the wizard opens    *)
(* them: the loaded catalog of step 1 and the results of a finished batch. *)
(***************************************************************************)
\* Step 1 once FetchFormTypesOk has run.
CatalogLoaded ==
  /\ step = 1
  /\ loading = FALSE
  /\ templates = catalog
  /\ formTypes = <<"all">> \o FormTypes
  /\ selectedFormType = "all"
  /\ searchQuery = <<>>
  /\ currentPage = 1
  /\ sortField = "name"
  /\ sortDirection = "asc"
  /\ filterOpen = FALSE
  /\ formTypeDropdownOpen = FALSE
  /\ viewMode = "list"
  /\ dragActive = FALSE
  /\ selectedTemplate = Null
  /\ csvFile = Null
  /\ previewData = Null
  /\ completed = FALSE
  /\ processingResults = Null
  /\ catalogReq = FALSE
  /\ processReqs = {}
  /\ submitCount = 0
  /\ processReqCount = 0
  /\ current = 0
  /\ DocumentFresh
  /\ last = [op |-> "fetchFormTypes", arg |-> Null]

\* Step 3 once the first submission, of file f under template t, was answered
\* with its batch.
BatchDone(t, f) ==
  /\ step = 3
  /\ loading = FALSE
  /\ templates = catalog
  /\ formTypes = <<"all">> \o FormTypes
  /\ selectedFormType = "all"
  /\ searchQuery = <<>>
  /\ currentPage = 1
  /\ sortField = "name"
  /\ sortDirection = "asc"
  /\ filterOpen = FALSE
  /\ formTypeDropdownOpen = FALSE
  /\ viewMode = "list"
  /\ dragActive = FALSE
  /\ selectedTemplate = t
  /\ csvFile = f
  /\ previewData = Preview(f)
  /\ completed = TRUE
  /\ processingResults = [batchId |-> BatchIdOf(1), successCount |-> f.rows,
                          hasFiles |-> TRUE,
                          files |-> GeneratedFiles([id |-> 1, file |-> f, template |-> t])]
  /\ catalogReq = FALSE
  /\ processReqs = {}
  /\ submitCount = 1
  /\ processReqCount = 1
  /\ current = 1
  /\ DocumentFresh
  /\ last = [op |-> "processResponse", arg |-> [id |-> 1, missing |-> FALSE]]

InitPreview ==
  /\ catalog = <<Template("a"), Template("b")>>
  /\ disk = {f \in Files : f.rows = 2}
  /\ tracked = Inst
  /\ validationError = NoStr
  /\ processing = FALSE
  /\ error = NoStr
  /\ showPreviewModal = FALSE
  /\ showEmailPreview = FALSE
  /\ selectedEmailTemplate = Null
  /\ showFilledPreview = FALSE
  /\ previewFilledForm = Null
  /\ showProcessedEmailPreview = FALSE
  /\ selectedProcessedEmail = Null
  /\ csvReqs = EmptyBag
  /\ pv = [m \in Viewers |-> FreshPreview]
  /\ pvReqs = EmptyBag
  /\ \/ CatalogLoaded
     \/ \E t \in Range(catalog), f \in disk : BatchDone(t, f)

NextPreview ==
  \/ \E t \in Range(catalog) : SelectRow(t)
  \/ Back
  \/ resetForm
  \/ \E t \in Range(catalog) : previewTemplate(t)
  \/ \E i \in 1..2 : PreviewGenerated(i)
  \/ CloseTemplatePreview
  \/ UseTemplateFromPreview
  \/ CloseEmailPreview
  \/ UseTemplateFromEmailPreview
  \/ CloseFilledPreview
  \/ CloseProcessedEmailPreview
  \/ \E q \in BagToSet(pvReqs) : \E o \in PreviewOutcomes(q) : PreviewResponse(q, o)
  \/ \E m \in Inst : RetryPreview(m)
  \/ \E m \in Inst : ShowBasicInfo(m)

SpecPreview == InitPreview /\ [][NextPreview]_vars

\* Every preview request issued is answered.
SpecPreviewFair ==
  /\ SpecPreview
  /\ WF_vars(\E q \in BagToSet(pvReqs) : \E o \in PreviewOutcomes(q) : PreviewResponse(q, o))

\* The same two places with the email previews alone followed.
InitEmailPreview ==
  /\ catalog = <<Template("a"), Template("b")>>
  /\ disk = {f \in Files : f.rows = 2}
  /\ tracked = {"templateEmail", "processedEmail"}
  /\ validationError = NoStr
  /\ processing = FALSE
  /\ error = NoStr
  /\ showPreviewModal = FALSE
  /\ showEmailPreview = FALSE
  /\ selectedEmailTemplate = Null
  /\ showFilledPreview = FALSE
  /\ previewFilledForm = Null
  /\ showProcessedEmailPreview = FALSE
  /\ selectedProcessedEmail = Null
  /\ csvReqs = EmptyBag
  /\ pv = [m \in Viewers |-> FreshPreview]
  /\ pvReqs = EmptyBag
  /\ \/ CatalogLoaded
     \/ \E t \in Range(catalog), f \in disk : BatchDone(t, f)

SpecEmailPreview == InitEmailPreview /\ [][NextPreview]_vars

(***************************************************************************)
(* Dataset ingestion on its own: step 2 with a template chosen, and a user *)
(* whose files cover every combination of name, media type and size around *)
(* the limit.                                                              *)
(***************************************************************************)
IngestFiles ==
  { [name |-> n, type |-> t, size |-> z, rows |-> 1] :
      n \in { <<"x", ".", "c", "s", "v">>, <<"x", ".", "t", "x", "t">>, <<"c", "s", "v">> },
      t \in { "text/csv", "text/plain", "" },
      z \in { SizeLimit, SizeLimit + 1, 6000000 } }

\* Step 2 once the catalog is loaded and the arrow of template t was pressed.
DatasetStep(t) ==
  /\ step = 2
  /\ loading = FALSE
  /\ templates = catalog
  /\ formTypes = <<"all">> \o FormTypes
  /\ selectedFormType = "all"
  /\ searchQuery = <<>>
  /\ currentPage = 1
  /\ sortField = "name"
  /\ sortDirection = "asc"
  /\ filterOpen = FALSE
  /\ formTypeDropdownOpen = FALSE
  /\ viewMode = "list"
  /\ dragActive = FALSE
  /\ selectedTemplate = t
  /\ csvFile = Null
  /\ previewData = Null
  /\ validationError = NoStr
  /\ processing = FALSE
  /\ completed = FALSE
  /\ error = NoStr
  /\ processingResults = Null
  /\ showPreviewModal = FALSE
  /\ showEmailPreview = FALSE
  /\ selectedEmailTemplate = Null
  /\ showFilledPreview = FALSE
  /\ previewFilledForm = Null
  /\ showProcessedEmailPreview = FALSE
  /\ selectedProcessedEmail = Null
  /\ catalogReq = FALSE
  /\ csvReqs = EmptyBag
  /\ processReqs = {}
  /\ submitCount = 0
  /\ processReqCount = 0
  /\ current = 0
  /\ pv = [m \in Viewers |-> FreshPreview]
  /\ pvReqs = EmptyBag
  /\ DocumentFresh
  /\ last = [op |-> "rowArrow", arg |-> t.id]

InitIngest ==
  /\ catalog = <<Template("a"), Template("b")>>
  /\ disk = IngestFiles
  /\ tracked = {}
  /\ DatasetStep(Template("a"))

NextIngest ==
  \/ \E f \in disk : handleFileUpload(f)
  \/ \E f \in disk : handleDrop(f)
  \/ \E type \in {"dragenter", "dragover", "dragleave"} : handleDrag(type)
  \/ UploadNoFile
  \/ RemoveFile
  \/ \E q \in BagToSet(csvReqs), o \in CsvOutcomes : CsvPreviewResponse(q, o)

SpecIngest == InitIngest /\ [][NextIngest]_vars

(***************************************************************************)
(* The catalog of step 1 on its own: backends whose catalog is a short     *)
(* list in any order, two of its templates sharing a name, or a list one   *)
(* template longer than a page; and a user who searches, filters, sorts    *)
(* and turns pages.                                                        *)
(***************************************************************************)
\* Every order of the templates of a set.
RECURSIVE Orders(_)
Orders(S) ==
  IF S = {} THEN {<<>>}
  ELSE UNION {{<<t>> \o rest : rest \in Orders(S \ {t})} : t \in S}

\* One template more than a page holds, the last one the only email.
LongCatalog ==
  [i \in 1..(templatesPerPage + 1) |->
     [id |-> Alphabet[i], name |-> <<"T", Alphabet[i]>>,
      type |-> IF i = templatesPerPage + 1 THEN "email" ELSE "pdf",
      description |-> <<"f", "i", "l", "l">>, lastModified |-> i]]

Catalogs ==
  {<<Template("a"), Template("b")>>, LongCatalog}
    \cup Orders({Template("a"), Template("c"), Template("d")})

Queries == {<<>>, <<"B">>, <<"M">>, <<"x">>}

InitCatalog ==
  /\ catalog \in Catalogs
  /\ disk = {}
  /\ tracked = {}
  /\ Mounted

NextCatalog ==
  \/ FetchFormTypesOk
  \/ \E text \in Queries : Search(text)
  \/ ToggleFormTypeDropdown
  \/ \E type \in Range(formTypes) : ChooseFormType(type)
  \/ ToggleFilter
  \/ \E type \in Range(formTypes) : FilterPanelType(type)
  \/ \E mode \in {"list", "grid"} : SetViewMode(mode)
  \/ \E field \in {"name", "type", "lastModified"} : toggleSort(field)
  \/ PreviousPage
  \/ NextPage
  \/ \E i \in 0..4 : GoToPage(i)

SpecCatalog == InitCatalog /\ [][NextCatalog]_vars

(***************************************************************************)
(* A user who browses the long catalog: selects rows, sorts by the         *)
(* headers, turns pages, and narrows the list by a query or by the type    *)
(* of the filter panel.                                                    *)
(***************************************************************************)
InitBrowse ==
  /\ catalog = LongCatalog
  /\ disk = {}
  /\ tracked = {}
  /\ Mounted

NextBrowse ==
  \/ FetchFormTypesOk
  \/ \E t \in Range(catalog) : SelectRow(t)
  \/ \E field \in {"name", "type", "lastModified"} : toggleSort(field)
  \/ PreviousPage
  \/ NextPage
  \/ \E text \in {<<>>, <<"t">>} : Search(text)
  \/ ToggleFilter
  \/ \E type \in {"all", "pdf"} : FilterPanelType(type)

SpecBrowse == InitBrowse /\ [][NextBrowse]_vars

(***************************************************************************)
(* The template previews of step 1 with the iframe component in the place  *)
(* of the document preview.                                                *)
(***************************************************************************)
InitPdfViewer ==
  /\ catalog = <<Template("a"), Template("b"), Template("c")>>
  /\ disk = {}
  /\ tracked = {"pdfViewer", "templateEmail"}
  /\ validationError = NoStr
  /\ processing = FALSE
  /\ error = NoStr
  /\ showPreviewModal = FALSE
  /\ showEmailPreview = FALSE
  /\ selectedEmailTemplate = Null
  /\ showFilledPreview = FALSE
  /\ previewFilledForm = Null
  /\ showProcessedEmailPreview = FALSE
  /\ selectedProcessedEmail = Null
  /\ csvReqs = EmptyBag
  /\ pv = [m \in Viewers |-> FreshPreview]
  /\ pvReqs = EmptyBag
  /\ CatalogLoaded

NextPdfViewer ==
  \/ \E t \in Range(catalog) : previewTemplate(t)
  \/ CloseTemplatePreview
  \/ UseTemplateFromPreview
  \/ CloseEmailPreview
  \/ UseTemplateFromEmailPreview
  \/ Back
  \/ \E q \in BagToSet(pvReqs) : \E o \in PreviewOutcomes(q) : PreviewResponse(q, o)
  \/ \E m \in Viewers : RetryPreview(m)

SpecPdfViewer == InitPdfViewer /\ [][NextPdfViewer]_vars

(***************************************************************************)
(* The results view of a finished batch and its downloads.  The handlers   *)
(* guard against a stored result without a batch id, so they are followed  *)
(* for every stored result, those that ProcessResponse refuses to store    *)
(* included.                                                               *)
(***************************************************************************)
StoredBatchIds == {BatchIdOf(1), NoBatchId, EmptyBatchId}

\* Step 3 showing the result of a batch of file f under template t, stored
\* with batch id b.
ResultsStored(t, f, b) ==
  /\ step = 3
  /\ loading = FALSE
  /\ templates = catalog
  /\ formTypes = <<"all">> \o FormTypes
  /\ selectedFormType = "all"
  /\ searchQuery = <<>>
  /\ currentPage = 1
  /\ sortField = "name"
  /\ sortDirection = "asc"
  /\ filterOpen = FALSE
  /\ formTypeDropdownOpen = FALSE
  /\ viewMode = "list"
  /\ dragActive = FALSE
  /\ selectedTemplate = t
  /\ csvFile = f
  /\ previewData = Preview(f)
  /\ validationError = NoStr
  /\ processing = FALSE
  /\ completed = TRUE
  /\ error = NoStr
  /\ processingResults = [batchId |-> b, successCount |-> f.rows, hasFiles |-> TRUE,
                          files |-> GeneratedFiles([id |-> 1, file |-> f, template |-> t])]
  /\ showPreviewModal = FALSE
  /\ showEmailPreview = FALSE
  /\ selectedEmailTemplate = Null
  /\ showFilledPreview = FALSE
  /\ previewFilledForm = Null
  /\ showProcessedEmailPreview = FALSE
  /\ selectedProcessedEmail = Null
  /\ catalogReq = FALSE
  /\ csvReqs = EmptyBag
  /\ processReqs = {}
  /\ submitCount = 1
  /\ processReqCount = 1
  /\ current = 1
  /\ pv = [m \in Viewers |-> FreshPreview]
  /\ pvReqs = EmptyBag
  /\ DocumentFresh
  /\ last = [op |-> "processResponse", arg |-> [id |-> 1, missing |-> FALSE]]

InitDownload ==
  /\ catalog = <<Template("a"), Template("b")>>
  /\ disk = {f \in Files : f.rows = 2}
  /\ tracked = {}
  /\ \E f \in disk, b \in StoredBatchIds : ResultsStored(Template("a"), f, b)

NextDownload ==
  \/ \E i \in 1..2 : RowDownload(i)
  \/ downloadAllForms
  \/ DismissAlert
  \/ Tick
  \/ \E n \in DOMAIN dl, o \in DownloadOutcomes : DownloadResponse(n, o)
  \/ \E n \in DOMAIN dl : SaveTimer(n)
  \/ \E n \in DOMAIN dl : StatusTimer(n)

SpecDownload == InitDownload /\ [][NextDownload]_vars

\* Every timer set with setTimeout(..., 1000) fires.
SpecDownloadFair ==
  /\ SpecDownload
  /\ \A n \in 1..MaxDownloads : WF_vars(SaveTimer(n))

\* The preview of a generated email and its Download Email button.
InitEmailDownload ==
  /\ catalog = <<Template("a"), Template("b")>>
  /\ disk = {f \in Files : f.rows = 2}
  /\ tracked = {"processedEmail"}
  /\ \E f \in disk, b \in StoredBatchIds : ResultsStored(Template("b"), f, b)

NextEmailDownload ==
  \/ \E i \in 1..2 : PreviewGenerated(i)
  \/ CloseProcessedEmailPreview
  \/ \E q \in BagToSet(pvReqs) : \E o \in PreviewOutcomes(q) : PreviewResponse(q, o)
  \/ RetryPreview("processedEmail")
  \/ ShowBasicInfo("processedEmail")
  \/ DownloadEmail
  \/ Tick

SpecEmailDownload == InitEmailDownload /\ [][NextEmailDownload]_vars

(***************************************************************************)
(* A batch from the dataset to its downloads: step 2 with a template       *)
(* chosen, the submission, its answer, and the row buttons of the results. *)
(***************************************************************************)
InitBatch ==
  /\ catalog = <<Template("a"), Template("b")>>
  /\ disk = {f \in Files : ~TypeRejected(f) /\ ~SizeRejected(f)}
  /\ tracked = {}
  /\ \E t \in Range(catalog) : DatasetStep(t)

NextBatch ==
  \/ \E f \in disk : handleFileUpload(f)
  \/ \E q \in BagToSet(csvReqs), o \in CsvOutcomes : CsvPreviewResponse(q, o)
  \/ processForm
  \/ \E r \in processReqs : \E o \in ProcessOutcomes(r) : ProcessResponse(r, o)
  \/ \E i \in 1..2 : RowDownload(i)
  \/ Back

SpecBatch == InitBatch /\ [][NextBatch]_vars

\* Batch after batch of one dataset under one template: Start New Batch and
\* the way back to step 2, also while a submission is still unanswered.
InitRounds ==
  /\ catalog = <<Template("a")>>
  /\ disk = {f \in Files : f.rows = 2}
  /\ tracked = {}
  /\ DatasetStep(Template("a"))

NextRounds ==
  \/ \E f \in disk : handleFileUpload(f)
  \/ \E q \in BagToSet(csvReqs), o \in CsvOutcomes : CsvPreviewResponse(q, o)
  \/ processForm
  \/ \E r \in processReqs : \E o \in ProcessOutcomes(r) : ProcessResponse(r, o)
  \/ resetForm
  \/ \E t \in Range(catalog) : SelectRow(t)
  \/ Continue
  \/ Back

SpecRounds == InitRounds /\ [][NextRounds]_vars

\* The backend answers every POST /forms/process.
SpecRoundsFair ==
  /\ SpecRounds
  /\ WF_vars(\E r \in processReqs : \E o \in ProcessOutcomes(r) : ProcessResponse(r, o))

(***************************************************************************)
(* The controls of the three step views.                                   *)
(***************************************************************************)
WizardControls ==
  \/ \E t \in Range(catalog) : SelectRow(t)
  \/ \E t \in Range(catalog) : RowArrow(t)
  \/ Continue
  \/ \E t \in Range(catalog) : previewTemplate(t)
  \/ \E f \in disk : handleFileUpload(f)
  \/ \E f \in disk : handleDrop(f)
  \/ UploadNoFile
  \/ RemoveFile
  \/ Back
  \/ processForm
  \/ resetForm
  \/ \E i \in 1..2 : PreviewGenerated(i)

\* A submission has resolved with an error that is still shown.
SubmitFailed == error # NoStr /\ error # CatalogFailed

(***************************************************************************)
(* C1.  If the preview target changes before a prior fetch resolves, only  *)
(* the latest target's result is ever rendered: the content a shown        *)
(* preview displays is the content of the target its props name.           *)
(***************************************************************************)
C1_OnlyLatestTargetRendered ==
  \A m \in tracked :
    "content" \in Rendered(m) /\ "of" \in DOMAIN pv[m].emailData
      => pv[m].emailData.of = Target(Props(m))

(***************************************************************************)
(* C2.  At most one batch submission is in flight in every reachable       *)
(* state, also after a reset during Processing.                            *)
(***************************************************************************)
C2_AtMostOneSubmissionInFlight == Cardinality(processReqs) <= 1

(***************************************************************************)
(* C3.  The answer to a submission that is no longer the current one       *)
(* (a reset came in between) changes none of processingResults, completed, *)
(* error, processing.                                                      *)
(***************************************************************************)
C3_StaleSubmitAnswerDiscarded ==
  [][(last'.op = "processResponse" /\ last'.arg.id # current)
       => UNCHANGED <<processingResults, completed, error, processing>>]_vars

(***************************************************************************)
(* C4.  A stored batch result always has a batchId, and handling a 2xx     *)
(* answer without batchId sets the error and leaves completed and the      *)
(* stored result as they were, so the results of that submission are       *)
(* never displayed.                                                        *)
(***************************************************************************)
MissingAnswered == last.op = "processResponse" /\ last.arg.missing

C4_NoBatchJobWithoutBatchId ==
  /\ [](processingResults # Null => Truthy(processingResults.batchId))
  /\ [](MissingAnswered => error = MissingBatchId /\ ~ResultsShown)
  /\ [][MissingAnswered' => UNCHANGED <<completed, processingResults>>]_vars

C4_Witness ==
  /\ MissingAnswered
  /\ last.arg.id = 2
  /\ error = MissingBatchId
  /\ step = 3

(***************************************************************************)
(* C5.  After a submission has resolved with an error the user can go on   *)
(* in the same session: some control of the wizard is available without    *)
(* reloading the page.                                                     *)
(***************************************************************************)
C5_RetryableAfterSubmitError == SubmitFailed => ENABLED WizardControls

(***************************************************************************)
(* C6.  A submission is only started for a validated dataset: when         *)
(* processForm has run, the backend preview of the file is stored.         *)
(***************************************************************************)
C6_SubmitRequiresValidatedDataset == last.op = "processForm" => previewData # Null

(***************************************************************************)
(* C7.  Beyond step 1 a template is selected, whichever way step 1 was     *)
(* left.                                                                   *)
(***************************************************************************)
C7_TemplateSelectedBeyondStep1 == step \in {2, 3} => selectedTemplate # Null

C7_Witness ==
  /\ step = 2
  /\ last.op = "useTemplate"
  /\ selectedTemplate \in Range(catalog)
  /\ selectedTemplate.type = "email"

(***************************************************************************)
(* C8.  When resetForm has run the wizard is at step 1 with no template,   *)
(* no dataset file, no dataset preview, no batch result, not completed,    *)
(* and neither the validation error nor the top-level error set.           *)
(***************************************************************************)
C8_ResetClearsSession ==
  last.op = "resetForm" =>
    /\ step = 1
    /\ selectedTemplate = Null
    /\ csvFile = Null
    /\ previewData = Null
    /\ processingResults = Null
    /\ completed = FALSE
    /\ validationError = NoStr
    /\ error = NoStr

\* resetForm has run while the submission and the dataset preview request
\* were both still in flight.
C8_Witness ==
  /\ last.op = "resetForm"
  /\ processing
  /\ processReqs # {}
  /\ BagCardinality(csvReqs) = 1

(***************************************************************************)
(* C9.  Selecting a different template at step 1 leaves no uploaded        *)
(* dataset and no batch result behind.                                     *)
(***************************************************************************)
C9_TemplateChangeResetsDataset ==
  [][(/\ step = 1
      /\ selectedTemplate # Null
      /\ selectedTemplate' # Null
      /\ selectedTemplate' # selectedTemplate)
       => (csvFile' = Null /\ previewData' = Null /\ processingResults' = Null)]_vars

(***************************************************************************)
(* C10.  As many POST /forms/process requests have been issued as submits  *)
(* were accepted: one per submit, none sent again after a failure.         *)
(***************************************************************************)
C10_OneRequestPerSubmit == processReqCount = submitCount

\* The second submission of a page load has failed.
C10_Witness ==
  /\ last.op = "processResponse"
  /\ last.arg.id = 2
  /\ SubmitFailed
  /\ submitCount = 2

(***************************************************************************)
(* C11.  Every entry of the Generated Files list is an entry of the        *)
(* backend's answer: the results view shows no file the stored batch       *)
(* result does not hold.                                                   *)
(***************************************************************************)
C11_NoSynthesizedFiles ==
  ResultsShown =>
    \A i \in DOMAIN FilesShown :
      /\ processingResults.hasFiles
      /\ i \in DOMAIN processingResults.files
      /\ FilesShown[i] = processingResults.files[i]

(***************************************************************************)
(* Dataset ingestion claims.  Uploaded: the handler that ran last is one   *)
(* of the two upload handlers, given the file last.arg.                    *)
(***************************************************************************)
Uploaded == last.op \in {"handleFileUpload", "handleDrop"}

(***************************************************************************)
(* C12.  An upload of a file whose name does not end in .csv ends with the *)
(* invalid-type message, whatever its media type and through either        *)
(* handler.                                                                *)
(***************************************************************************)
C12_InvalidTypeByName ==
  Uploaded /\ ~endsWith(last.arg.name, CsvSuffix)
    => validationError = "Please upload a valid CSV file"

(***************************************************************************)
(* C13.  A file named *.csv is stored when its size is at most 5 MiB       *)
(* (5242880 bytes) and gets the size message when it is larger; a file     *)
(* that is neither named *.csv nor typed text/csv gets the type message    *)
(* even when it is too large as well.                                      *)
(***************************************************************************)
C13_SizeBoundary ==
  Uploaded =>
    /\ endsWith(last.arg.name, CsvSuffix) /\ last.arg.size <= 5242880
         => validationError = NoStr /\ csvFile = last.arg
    /\ endsWith(last.arg.name, CsvSuffix) /\ last.arg.size > 5242880
         => validationError = "File size exceeds 5MB limit" /\ csvFile = Null
    /\ ~endsWith(last.arg.name, CsvSuffix) /\ last.arg.type # "text/csv"
         => validationError = "Please upload a valid CSV file" /\ csvFile = Null

\* A file of exactly 5 MiB was picked and stored.
C13_Witness ==
  /\ last.op = "handleFileUpload"
  /\ last.arg.size = 5242880
  /\ csvFile = last.arg
  /\ validationError = NoStr

(***************************************************************************)
(* C14.  The picker and the drop zone are usable in the same states, run   *)
(* the same checks with the same result on every file, make the same of    *)
(* every backend answer, and a step of either handler leaves the message,  *)
(* the stored file, the preview and the files asked for as the other       *)
(* handler's checks prescribe.                                             *)
(***************************************************************************)
FilesAsked(bag) ==
  [f \in {q.file : q \in BagToSet(bag)} |->
     CopiesIn([file |-> f, via |-> "picker"], bag) + CopiesIn([file |-> f, via |-> "drop"], bag)]

Leaves(r, f) ==
  /\ validationError' = r.validationError
  /\ previewData' = previewData
  /\ csvFile' = (IF r.stored THEN f ELSE csvFile)
  /\ FilesAsked(csvReqs') = FilesAsked(csvReqs) (+) (IF r.stored THEN SetToBag({f}) ELSE EmptyBag)

C14_PathIndependent ==
  /\ [](\A f \in disk :
          /\ IngestResult(f) = DropResult(f)
          /\ (ENABLED handleFileUpload(f)) <=> (ENABLED handleDrop(f))
          /\ \A o \in CsvOutcomes :
               PreviewThen([file |-> f, via |-> "picker"], o)
                 = DropPreviewThen([file |-> f, via |-> "drop"], o))
  /\ [][\A f \in disk :
          /\ handleDrop(f) => Leaves(IngestResult(f), f)
          /\ handleFileUpload(f) => Leaves(DropResult(f), f)]_vars

\* A file typed text/csv but not named *.csv was dropped, stored, and its
\* preview asked for.
C14_Witness ==
  /\ last.op = "handleDrop"
  /\ csvFile = last.arg
  /\ last.arg.type = "text/csv"
  /\ ~endsWith(last.arg.name, CsvSuffix)
  /\ BagCardinality(csvReqs) = 1

(***************************************************************************)
(* C15.  An upload that ends with the type or the size message issues no   *)
(* preview-csv request and leaves the stored file and the preview as they  *)
(* were.                                                                   *)
(***************************************************************************)
C15_RejectedBeforeAnyRequest ==
  [][(/\ Uploaded'
      /\ validationError' \in {"Please upload a valid CSV file", "File size exceeds 5MB limit"})
       => UNCHANGED <<csvReqs, csvFile, previewData>>]_vars

\* An oversized file was dropped while the preview of a removed file was still
\* being fetched.
C15_Witness ==
  /\ last.op = "handleDrop"
  /\ validationError = "File size exceeds 5MB limit"
  /\ BagCardinality(csvReqs) = 1

(***************************************************************************)
(* C16.  When the backend has rejected the dataset, the session holds no   *)
(* dataset file and no dataset preview.                                    *)
(***************************************************************************)
C16_NoDatasetAfterRejection ==
  last.op = "csvPreviewResponse" /\ ~last.arg.ok
    => csvFile = Null /\ previewData = Null

\* Whether the text occurs in the field somewhere, letter case put aside.
Occurs(text, field) ==
  \E i \in 1..(Len(field) - Len(text) + 1) :
    toLowerCase(SubSeq(field, i, i + Len(text) - 1)) = toLowerCase(text)

Kept(t) ==
  /\ selectedFormType = "all" \/ t.type = selectedFormType
  /\ \/ Occurs(searchQuery, t.name)
     \/ Occurs(searchQuery, t.description)
     \/ Occurs(searchQuery, <<t.id>>)

\* C17: the filter keeps, in their order, exactly the templates whose type
\* is the selected one (or any type under "all") and whose name, description
\* or id contains the query as a substring, letter case put aside; the empty
\* query is contained in every template.
C17_FilterKeepsExactlyTheMatches ==
  /\ filteredTemplates = SelectSeq(templates, Kept)
  /\ searchQuery = <<>> =>
       filteredTemplates = SelectSeq(templates, LAMBDA t : typeMatch(t, selectedFormType))

\* C17: of three templates the query "M" under the type email keeps Beta
\* alone, whose description "mail" contains it, and drops both Zetas.
C17_Witness ==
  /\ last.op \in {"search", "chooseFormType", "filterPanelType"}
  /\ searchQuery = <<"M">>
  /\ selectedFormType = "email"
  /\ Len(templates) = 3
  /\ filteredTemplates = <<Template("c")>>

\* C18 as amended: sorting by name descending gives the ascending order
\* reversed whenever no two templates of the list have names that compare
\* equal.
NamesDiffer(list) ==
  \A i, j \in 1..Len(list) : i # j => localeCompare(list[i].name, list[j].name) # 0

C18_ReversedWhenNamesDiffer ==
  NamesDiffer(filteredTemplates) =>
    sorted(filteredTemplates, "name", "desc")
      = Reverse(sorted(filteredTemplates, "name", "asc"))

\* C18: two templates with different names are shown by name, descending,
\* after the name header was clicked.
C18_Witness ==
  /\ last.op = "toggleSort"
  /\ sortField = "name"
  /\ sortDirection = "desc"
  /\ Len(filteredTemplates) = 2
  /\ NamesDiffer(filteredTemplates)
  /\ sortedTemplates = Reverse(sorted(filteredTemplates, "name", "asc"))

\* C18 as stated: sorting by name descending gives the ascending order
\* reversed for any list, templates with the same name included.
C18_ReversedForAnyList ==
  sorted(filteredTemplates, "name", "desc")
    = Reverse(sorted(filteredTemplates, "name", "asc"))

\* The order the chosen field puts two templates in: negative, zero, positive.
FieldOrder(a, b) ==
  CASE sortField = "name" -> localeCompare(a.name, b.name)
    [] sortField = "type" -> localeCompare(TypeChars[a.type], TypeChars[b.type])
    [] sortField = "lastModified" -> a.lastModified - b.lastModified

Position(list, t) == CHOOSE i \in 1..Len(list) : list[i] = t

\* C19: the sorted list holds the templates of the filtered list, each once,
\* in the order of the chosen field and direction; templates the field does
\* not tell apart stay in the order the filtered list has them, in both
\* directions; and [Zeta(a), Alpha(b)] by name ascending is
\* [Alpha(b), Zeta(a)].
C19_SortedStablePermutation ==
  LET given == filteredTemplates
      shown == sortedTemplates
  IN /\ Len(shown) = Len(given)
     /\ Range(shown) = Range(given)
     /\ \A i, j \in 1..Len(shown) :
          i < j =>
            /\ sortDirection = "asc" => FieldOrder(shown[i], shown[j]) <= 0
            /\ sortDirection = "desc" => FieldOrder(shown[i], shown[j]) >= 0
            /\ FieldOrder(shown[i], shown[j]) = 0 =>
                 Position(given, shown[i]) < Position(given, shown[j])
     /\ (/\ given = <<Template("a"), Template("b")>>
         /\ sortField = "name"
         /\ sortDirection = "asc") => shown = <<Template("b"), Template("a")>>

\* C19: by name, descending, the two templates named Zeta are shown in the
\* order the catalog has them, d before a.
C19_Witness ==
  /\ last.op = "toggleSort"
  /\ sortField = "name"
  /\ sortDirection = "desc"
  /\ Len(filteredTemplates) = 3
  /\ Position(filteredTemplates, Template("d")) < Position(filteredTemplates, Template("a"))
  /\ SubSeq(sortedTemplates, 1, 2) = <<Template("d"), Template("a")>>

\* C20: while the filtered list is not empty, the current page is one of
\* its pages.
C20_PageWithinBounds ==
  (~loading /\ filteredTemplates # <<>>) =>
    (1 <= currentPage /\ currentPage <= totalPages)

\* C21 as stated: a step that changes the type filter or the search query
\* leaves the page at 1, whichever control made the change.
C21_FilterChangeResetsPage ==
  [][(selectedFormType' # selectedFormType \/ searchQuery' # searchQuery)
       => currentPage' = 1]_vars

\* C22: a click on a sort header, whether it turns the direction or changes
\* the field, leaves the current page, the type filter, the query and the
\* selected template as they were.
C22_SortKeepsPage ==
  [][(sortField' # sortField \/ sortDirection' # sortDirection)
       => UNCHANGED <<currentPage, selectedFormType, searchQuery, selectedTemplate>>]_vars

\* C22: on page 2, with a query typed and a template selected, a header
\* was clicked.
C22_Witness ==
  /\ last.op = "toggleSort"
  /\ currentPage = 2
  /\ searchQuery = <<"t">>
  /\ selectedTemplate # Null
  /\ sortField = "lastModified"

\* Nothing of a download exists: no request, no notification, no link and
\* no object URL.
NothingStarted == dl = <<>> /\ body = {} /\ urls = {} /\ opened = Null

AbsentBatchId == processingResults = Null \/ ~Truthy(processingResults.batchId)

\* C23: Download All Files on a result without a batch id puts up the alert
\* in the same step and starts nothing: no request, no notification, no link.
C23_DownloadAllNeedsBatchId ==
  [][(downloadAllForms /\ AbsentBatchId) => (alert' # NoStr /\ NothingStarted')]_vars

\* C23: Download All Files was pressed on a result without a batch id.
C23_Witness ==
  /\ last.op = "downloadAllForms"
  /\ AbsentBatchId
  /\ alert = "Error: Missing batch ID. Please try again or reload the page."
  /\ NothingStarted

Element(elements, node) == {e \in elements : e.node = node}

\* C25: for any interleaving of downloads, single-file or archive, started in
\* the same millisecond or not, a step changes or removes the notification
\* of a download only if it is a step of that download; the notification of
\* a download is in the document until its last timer has fired and has then
\* been removed exactly once, and no removal throws.
C25_NotificationsIndependent ==
  /\ [](/\ ~uncaught
        /\ \A n \in DOMAIN dl :
             /\ CopiesIn(Node(n, "status"), removed) = (IF dl[n].phase = "gone" THEN 1 ELSE 0)
             /\ InBody(Node(n, "status")) <=> dl[n].phase # "gone")
  /\ [][\A n \in DOMAIN dl :
          Element(body', Node(n, "status")) # Element(body, Node(n, "status"))
            => dl'[n].phase # dl[n].phase]_vars

\* C25: of two single-file downloads started in the same millisecond, whose
\* notifications carry the same id, the second has failed and lost its
\* notification while the first still shows its success.
C25_Witness ==
  /\ Len(dl) = 2
  /\ dl[1].statusId = dl[2].statusId
  /\ dl[1].phase = "shown"
  /\ dl[2].phase = "gone"
  /\ dl[2].link = Null
  /\ body = {[node |-> Node(1, "status"), id |-> dl[1].statusId, cls |-> "green"]}

\* C26: the link and the object URL a download creates for the save are
\* released by its one-second timer: once a download is past that timer its
\* link is out of the document, removed once, and its URL revoked; and every
\* download that has created them gets there.
C26_HandlesReleased ==
  /\ [](\A n \in DOMAIN dl :
          /\ dl[n].phase \in {"fetching", "failed"} => dl[n].link = Null
          /\ dl[n].link # Null /\ dl[n].phase # "saving" =>
               /\ dl[n].link \notin urls
               /\ ~InBody(dl[n].link)
               /\ CopiesIn(dl[n].link, removed) = 1)
  /\ \A n \in 1..MaxDownloads :
       (n \in DOMAIN dl /\ dl[n].phase = "saving")
         ~> (n \in DOMAIN dl /\ dl[n].link \notin urls /\ ~InBody(dl[n].link))

\* C26: a single-file download and an archive download have both saved and
\* finished, and no link or object URL is left.
C26_Witness ==
  /\ Len(dl) = 2
  /\ {dl[1].kind, dl[2].kind} = {"one", "all"}
  /\ \A n \in DOMAIN dl : dl[n].phase = "gone" /\ dl[n].link # Null
  /\ urls = {}
  /\ body = {}
  /\ BagCardinality(removed) = 4

\* What the wizard opened the preview instance for.
Asked(m) ==
  CASE m = "templateDoc"    -> [kind |-> "template", id |-> selectedTemplate.id]
    [] m = "templateEmail"  -> [kind |-> "template", id |-> selectedEmailTemplate.id]
    [] m = "filledDoc"      -> [kind |-> "processed", file |-> previewFilledForm.name,
                                batchId |-> previewFilledForm.batchId]
    [] m = "processedEmail" -> [kind |-> "processed", file |-> selectedProcessedEmail.name,
                                batchId |-> selectedProcessedEmail.batchId]

\* C28 as stated: when an eye button has opened a preview, of a template or
\* of a generated file, document or email, a request of that preview is in
\* flight that names its target: the template id, or the file name and the
\* batch id.
C28_EachPreviewAsksForItsTarget ==
  \A m \in tracked :
    (last.op \in {"previewTemplate", "previewGenerated"} /\ Props(m).showModal)
      => \E q \in BagToSet(pvReqs) : q.inst = m /\ q.target = Asked(m)

\* C29 as stated: Try Again pressed on the error a failed preview request
\* has left issues a request for the target of that failed request.
C29_RetryAsksForTheFailedTarget ==
  [][\A m \in tracked :
       (RetryPreview(m) /\ last.op = "previewResponse" /\ last.arg.inst = m
          /\ last.arg.failed)
         => \E q \in BagToSet(pvReqs') :
              /\ q.inst = m /\ q.retry /\ q.target = last.arg.target
              /\ CopiesIn(q, pvReqs') = CopiesIn(q, pvReqs) + 1]_vars

\* C30: an email preview that shows an error offers Show Basic Info, and
\* pressing it while no email data is loaded leaves the fallback, and only
\* the fallback, in the panel, with the name of the template or of the
\* generated file on it.
C30_FallbackAfterError ==
  /\ [](\A m \in tracked :
          (Variant(m) = "email" /\ "error" \in Rendered(m)) => ENABLED ShowBasicInfo(m))
  /\ [][\A m \in tracked :
          (ShowBasicInfo(m) /\ pv[m].emailData = Null)
            => (Rendered(m)' = {"fallback"} /\ FallbackIdentity(m)' # Null)]_vars

\* C30: the preview of a generated email failed to load and Show Basic Info
\* was pressed.
C30_Witness ==
  /\ last = [op |-> "showBasicInfo", arg |-> "processedEmail"]
  /\ pv["processedEmail"].emailData = Null
  /\ Rendered("processedEmail") = {"fallback"}
  /\ FallbackIdentity("processedEmail") = selectedProcessedEmail.name

\* C27 as stated: every preview request in flight, whichever preview issued
\* it, first or retried, carries a token that defeats the cache or asks the
\* cache to be bypassed.
C27_EveryPreviewFetchBypassesCache ==
  \A q \in BagToSet(pvReqs) : "t" \in q.query \/ q.cache = "no-cache"

(***************************************************************************)
(* C31.  A 2xx answer {batchId, successCount, files} with a batch id is    *)
(* stored as it came, the Generated Files list of the results shows        *)
(* exactly its entries, each with a download button, and the download      *)
(* button of entry i starts one download that carries that entry's file    *)
(* name and the batch id of the stored batch.                              *)
(***************************************************************************)
C31_BatchFilesDownloadable ==
  /\ [](ResultsShown /\ processingResults.hasFiles =>
          /\ FilesShown = processingResults.files
          /\ \A i \in DOMAIN processingResults.files :
                (alert = NoStr /\ DownloadRoom) => ENABLED RowDownload(i))
  /\ [][\A r \in processReqs : \A o \in ProcessOutcomes(r) :
          (ProcessResponse(r, o) /\ o.kind = "ok" /\ Truthy(o.result.batchId)) =>
            /\ processingResults' = o.result
            /\ completed'
            /\ o.result.hasFiles => Len(processingResults'.files) = Len(o.result.files)]_vars
  /\ [][\A i \in 1..2 :
          (RowDownload(i) /\ processingResults.hasFiles) =>
            /\ Len(dl') = Len(dl) + 1
            /\ dl'[Len(dl')].kind = "one"
            /\ dl'[Len(dl')].file = processingResults.files[i]
            /\ dl'[Len(dl')].batchId = processingResults.batchId
            /\ dl'[Len(dl')].phase = "fetching"]_vars

\* C31: the answer to a dataset of two rows is shown with its two files, and
\* a download of each has been started under the batch id of that answer.
C31_Witness ==
  /\ ResultsShown
  /\ processingResults.hasFiles
  /\ Len(processingResults.files) = 2
  /\ Len(dl) = 2
  /\ \A i \in 1..2 : /\ dl[i].file = processingResults.files[i]
                      /\ dl[i].batchId = processingResults.batchId

(***************************************************************************)
(* C32 as stated: a stored dataset preview is the backend's preview of the *)
(* dataset file stored with it; there is none without a stored file.       *)
(***************************************************************************)
C32_PreviewBelongsToStoredFile ==
  previewData # Null => (csvFile # Null /\ previewData = Preview(csvFile))

(***************************************************************************)
(* C33.  While the completed flag is set a batch result is stored and its  *)
(* batch id is a usable one, so the row buttons of the results read the    *)
(* batch id of a batch that is there.                                      *)
(***************************************************************************)
C33_CompletedHasBatch ==
  completed => (processingResults # Null /\ Truthy(processingResults.batchId))

\* C33: the flag is set by an answer that arrived after Start New Batch had
\* cleared the session, and the batch of that answer is stored with it.
C33_Witness ==
  /\ completed
  /\ step = 1
  /\ last.op = "processResponse"
  /\ processingResults # Null
  /\ Truthy(processingResults.batchId)

(***************************************************************************)
(* C34.  A submission resolves once the backend answers: whichever branch  *)
(* the answer takes (a batch, a 2xx without batch id, a non-2xx, no answer *)
(* at all) the processing flag is cleared and either the batch is stored   *)
(* as completed or an error is shown; and a session that is processing    *)
(* gets to such a state.                                                   *)
(***************************************************************************)
C34_SubmissionResolves ==
  /\ [][\A r \in processReqs : \A o \in ProcessOutcomes(r) :
          ProcessResponse(r, o) =>
            /\ ~processing'
            /\ IF o.kind = "ok" /\ Truthy(o.result.batchId)
                 THEN completed' /\ processingResults' = o.result
                 ELSE error' # NoStr]_vars
  /\ processing ~> (~processing /\ (completed \/ error # NoStr))
  /\ \A id \in 1..MaxSubmits :
       (\E r \in processReqs : r.id = id) ~> ~(\E r \in processReqs : r.id = id)

\* C34: a submission was answered without a batch id: the flag is cleared
\* and the error about the missing batch id is shown.
C34_Witness ==
  /\ last.op = "processResponse"
  /\ last.arg.missing
  /\ ~processing
  /\ error = MissingBatchId
  /\ processReqs = {}

(***************************************************************************)
(* C35 as stated: once Try Again is pressed in a preview, the preview      *)
(* leaves the loading state (or is closed), given that every request       *)
(* issued is answered.                                                     *)
(***************************************************************************)
C35_RetryLeavesLoading ==
  \A m \in Inst :
    (last.op = "retryPreview" /\ last.arg = m)
      ~> (~pv[m].loading \/ ~Props(m).showModal)

(***************************************************************************)
(* C36 as stated: the answer to a retried preview request leaves the       *)
(* preview in the state the same answer to a first request would have      *)
(* left: content for a 2xx answer, the error for anything else.            *)
(***************************************************************************)
C36_RetryClassifiesAsFirstFetch ==
  [][\A q \in BagToSet(pvReqs) : \A o \in PreviewOutcomes(q) :
       (PreviewResponse(q, o) /\ q.retry) =>
         pv'[q.inst] = EffectThen(pv[q.inst], o)]_vars

(***************************************************************************)
(* C37.  A click on the header of the current sort field turns the         *)
(* direction and keeps the field; a click on another header selects that   *)
(* field, ascending; and a second click on a header, right after a click   *)
(* on it while it was the sort field, gives back the field and direction   *)
(* from before the first.  (last holds the click toggleSort(field) that    *)
(* ran last and the sort state it found.)                                  *)
(***************************************************************************)
C37_ToggleSortFlipsOrSelects ==
  /\ [][last'.op = "toggleSort" =>
          /\ last'.arg.from = [field |-> sortField, direction |-> sortDirection]
          /\ IF sortField = last'.arg.field
               THEN /\ sortField' = sortField
                    /\ sortDirection' \in {"asc", "desc"}
                    /\ sortDirection' # sortDirection
               ELSE /\ sortField' = last'.arg.field
                    /\ sortDirection' = "asc"]_vars
  /\ [][(/\ last'.op = "toggleSort"
          /\ last.op = "toggleSort"
          /\ last'.arg.field = last.arg.field
          /\ last.arg.from.field = last.arg.field) =>
            /\ sortField' = last.arg.from.field
            /\ sortDirection' = last.arg.from.direction]_vars

\* C37: the list was sorted by type, the type header was clicked, turning
\* the direction to descending, and clicked again: ascending by type.
C37_Witness ==
  /\ last.op = "toggleSort"
  /\ last.arg.field = "type"
  /\ last.arg.from = [field |-> "type", direction |-> "desc"]
  /\ sortField = "type"
  /\ sortDirection = "asc"

(***************************************************************************)
(* C38.  With ten templates to a page, the number of pages of the sorted   *)
(* list of n templates is the least count with room for n; page p holds    *)
(* the templates at positions (p-1)*10+1 .. min(p*10, n) in their order;   *)
(* and pages 1..totalPages one after the other are the sorted list.        *)
(***************************************************************************)
RECURSIVE PagesJoined(_, _)
PagesJoined(list, upTo) ==
  IF upTo = 0 THEN <<>> ELSE PagesJoined(list, upTo - 1) \o page(list, upTo)

C38_PagesPartitionSortedList ==
  LET list == sortedTemplates
      n == Len(list)
  IN /\ templatesPerPage = 10
     /\ totalPages \in 0..n
     /\ totalPages * 10 >= n
     /\ (totalPages - 1) * 10 < n
     /\ \A p \in 1..totalPages :
          LET first == (p - 1) * 10 + 1
              end == IF p * 10 < n THEN p * 10 ELSE n
          IN /\ Len(page(list, p)) = end - first + 1
             /\ Len(page(list, p)) \in 1..10
             /\ \A i \in 1..(end - first + 1) : page(list, p)[i] = list[first + i - 1]
     /\ PagesJoined(list, totalPages) = list
     /\ (currentPage \in 1..totalPages) => currentTemplates = page(list, currentPage)

\* C38: eleven templates are listed and the second page is shown, holding
\* the eleventh alone.
C38_Witness ==
  /\ ~loading
  /\ Len(sortedTemplates) = 11
  /\ totalPages = 2
  /\ currentPage = 2
  /\ currentTemplates = <<sortedTemplates[11]>>

====
